---- MODULE Spec2Model ----
(***************************************************************************)
(* Theus engine: versioned state store, transaction lifecycle, commit by   *)
(* compare-and-swap, retry loop of TheusEngine.execute and the outbox.     *)
(*                                                                         *)
(* src/theus/engine.py is the Python facade.  The store, the Transaction   *)
(* object and the conflict controller live in the native core              *)
(* (theus_core), which the facade only calls; those parts follow the       *)
(* design document, with the conflict granularity of Smart CAS taken from  *)
(* the repository's tests of it (tests/02_safety/verify_4tier_strictness,  *)
(* tests/02_safety/verify_strict_decoupling, tests/manual/verify_smart_cas)*)
(***************************************************************************)
EXTENDS Integers, Sequences, FiniteSets, TLC

(***************************************************************************)
(* Bounds of the model.                                                    *)
(***************************************************************************)
NumProcs == 2
MaxVersion == 4
MaxAttempts == 2
MaxRetries == 1
MaxFails == 3
MaxThreshold == 2
MaxReads == 3
MaxPureRuns == 2
MaxMerges == 2
NumReceivers == 2
MaxPublish == 5
HubCapacity == 2

(***************************************************************************)
(* Program constants.                                                      *)
(***************************************************************************)
ConflictThreshold == 5

Procs == 1..NumProcs
NoProc == 0

(***************************************************************************)
(* The state tree.  A node is a scalar, a list or a mapping of keys to     *)
(* nodes; one record shape carries the three so that nodes compare.        *)
(***************************************************************************)
EmptyMap == << >>
S(v) == [tag |-> "s", v |-> v, l |-> << >>, m |-> EmptyMap]
L(l) == [tag |-> "l", v |-> 0, l |-> l, m |-> EmptyMap]
M(m) == [tag |-> "m", v |-> 0, l |-> << >>, m |-> m]

Map1(k, n) == [x \in {k} |-> n]
Map2(k1, n1, k2, n2) == [x \in {k1, k2} |-> IF x = k1 THEN n1 ELSE n2]

(* Context handed to the engine at construction (hydrated by the first CAS) *)
InitData ==
    [x \in {"a", "d", "log"} |->
        CASE x = "a" -> S(0)
          [] x = "d" -> M(Map2("x", S(0), "y", S(0)))
          [] x = "log" -> L(<< >>)]

(***************************************************************************)
(* Deep merge of a patch into a base: key by key; where both sides hold a  *)
(* mapping, recurse; otherwise the patch value replaces the base.          *)
(***************************************************************************)
(* a merge that extends a list by the patch's list instead of replacing it *)
deep_merge_extend(base, patch) ==
    [k \in (DOMAIN base) \cup (DOMAIN patch) |->
        IF k \notin DOMAIN patch THEN base[k]
        ELSE IF k \notin DOMAIN base THEN patch[k]
        ELSE IF base[k].tag = "l" /\ patch[k].tag = "l"
             THEN L(base[k].l \o patch[k].l)
             ELSE patch[k]]

RECURSIVE deep_merge(_, _)
deep_merge(base, patch) ==
    [k \in (DOMAIN base) \cup (DOMAIN patch) |->
        IF k \notin DOMAIN patch THEN base[k]
        ELSE IF k \notin DOMAIN base THEN patch[k]
        ELSE IF base[k].tag = "m" /\ patch[k].tag = "m"
             THEN M(deep_merge(base[k].m, patch[k].m))
             ELSE patch[k]]

(***************************************************************************)
(* Keys touched by a patch, as paths: a top-level key holding a scalar or  *)
(* a list is the path <<k>>; a top-level mapping contributes one path      *)
(* <<k, f>> per field it carries, and none when it is empty.               *)
(***************************************************************************)
TouchedPaths(patch) ==
    UNION { IF patch[k].tag = "m"
            THEN { <<k, f>> : f \in DOMAIN patch[k].m }
            ELSE { <<k>> } : k \in DOMAIN patch }

TopLevelKeys(paths) == { p[1] : p \in paths }

(* two paths collide when one is a prefix of the other *)
PathsCollide(p, q) ==
    /\ p[1] = q[1]
    /\ (Len(p) = 2 /\ Len(q) = 2) => p[2] = q[2]


(***************************************************************************)
(* State.                                                                  *)
(*   strict_cas, core_strict  the facade's flag and the flag the core got  *)
(*   version, data, heavy     the committed store                          *)
(*   history                  history[v] = paths touched by the commit     *)
(*                            that minted version v (Smart CAS cache)      *)
(*   ticket, conflicts        priority ticket holder, conflict counters    *)
(*   outbox, delivered        committed messages awaiting relay; messages  *)
(*                            the worker has received                      *)
(*   pc, prog, tx             per execution: position in execute, process  *)
(*                            being run, its open Transaction              *)
(*   max_retries, current_retries, attempts   retry bookkeeping of execute *)
(*   last                     the most recent compare_and_swap: its        *)
(*                            arguments, the store it met and its result   *)
(*   acct                     per execution: the attempts of the call      *)
(*                            whose Transaction committed; the attempts    *)
(*                            that ended in an exception; whether the      *)
(*                            user function has raised; the attempts for   *)
(*                            which log_success, report_success and        *)
(*                            flush_outbox were called                     *)
(*   committed                every data tree the store has ever held      *)
(***************************************************************************)
VARIABLES strict_cas, core_strict, version, data, heavy, history,
          ticket, conflicts, outbox, delivered,
          pc, prog, tx, max_retries, current_retries, attempts,
          last, acct, committed

storeVars == <<version, data, heavy, history>>
ctlVars == <<ticket, conflicts>>
execVars == <<pc, prog, tx, max_retries, current_retries, attempts>>
engineVars == <<strict_cas, core_strict, version, data, heavy, history,
                ticket, conflicts, outbox, delivered,
                pc, prog, tx, max_retries, current_retries, attempts,
                last, acct, committed>>

(***************************************************************************)
(* State of one engine's context guard layer:                              *)
(*   strict_guards            TheusEngine._strict_guards                   *)
(*   physics_overrides        PYTHON_PHYSICS_OVERRIDES, keyed by the field *)
(*                            below "domain"                               *)
(*   ns_registered, ns_policy whether "domain" is in the NamespaceRegistry *)
(*                            and the policy get_policy returns for it     *)
(*   contract, allowed        the running process's contract and the       *)
(*                            guard's filtered whitelists                  *)
(*   gpc                      "idle" or "run": a process body is running   *)
(*   local_is_admin           _local_is_admin of the process's guard       *)
(*   admin_stack              flags saved by the open AdminTransactions    *)
(*   kept_admin               the process holds a descendant guard that    *)
(*                            was produced while its parent was elevated   *)
(*   shadow, gstore           the transaction's view and the committed     *)
(*                            context, by field                            *)
(*   delta_log                the transaction's delta entries              *)
(*   glast                    the last guard call or commit, its result    *)
(*   log_trace                history: what non-admin appends put into the *)
(*                            log list, and whether an elevated write      *)
(*                            touched it                                   *)
(*   ops, runs                guard calls made so far, runs started         *)
(***************************************************************************)
VARIABLES strict_guards, physics_overrides, ns_registered, ns_policy,
          contract, allowed, gpc, local_is_admin, admin_stack, kept_admin,
          shadow, gstore, delta_log, glast, log_trace, ops, runs

guardVars == <<strict_guards, physics_overrides, ns_registered, ns_policy,
               contract, allowed, gpc, local_is_admin, admin_stack,
               kept_admin, shadow, gstore, delta_log, glast, log_trace,
               ops, runs>>
(***************************************************************************)
(* State of the engine's audit system:                                     *)
(*   audit_recipe   the AuditRecipe the AuditSystem was built with         *)
(*   audit_count    the failure counter of every key (get_count)           *)
(*   fails_since    history: the log_fail calls made on a key since the    *)
(*                  key was last reset                                     *)
(*   alast          the last audit call or audited execution, its result   *)
(***************************************************************************)
VARIABLES audit_recipe, audit_count, fails_since, alast

auditVars == <<audit_recipe, audit_count, fails_since, alast>>

(***************************************************************************)
(* State of the view of a PURE process:                                    *)
(*   pure_inputs   contract.inputs of the process that runs or ran last    *)
(*   pure_outputs  contract.outputs of that process                        *)
(*   pure_view     the key sets of its RestrictedStateProxy                *)
(*   pure_seen     history: the paths the process has read a value of      *)
(*   plast         the last read through the view and its result           *)
(*   preads        reads made so far                                       *)
(***************************************************************************)
VARIABLES pure_inputs, pure_outputs, pure_view, pure_seen, plast, preads

pureVars == <<pure_inputs, pure_outputs, pure_view, pure_seen, plast, preads>>

(***************************************************************************)
(* A deep merge applied repeatedly.                                        *)
(*   m_base, m_patch   the state it started from and the patch             *)
(*   m_out             the state after m_step applications of the patch    *)
(***************************************************************************)
VARIABLES m_base, m_patch, m_out, m_step

mergeVars == <<m_base, m_patch, m_out, m_step>>

(***************************************************************************)
(* A SignalHub and its receivers.                                          *)
(*   hub_published   every message published so far, in publish order; the *)
(*                   channel retains the last HubCapacity of them          *)
(*   hub_start       per receiver: the number of messages published before *)
(*                   it subscribed, or NotSubscribed                       *)
(*   hub_next        per receiver: position of the message its next recv   *)
(*                   is due                                                *)
(*   hub_got         per receiver: the messages its recv calls returned    *)
(*   hub_over        per receiver: it has had more than HubCapacity        *)
(*                   unconsumed messages at some moment                    *)
(*   hub_err         per receiver: its last recv raised "Channel Lagged"   *)
(***************************************************************************)
VARIABLES hub_published, hub_start, hub_next, hub_got, hub_over, hub_err

hubVars == <<hub_published, hub_start, hub_next, hub_got, hub_over, hub_err>>

auxVars == <<mergeVars, hubVars>>

vars == <<engineVars, guardVars, auditVars, pureVars, auxVars>>

(***************************************************************************)
(* Processes the host registers.  Each writes one path through the guard   *)
(* and enqueues one outbox message.                                        *)
(*   inc_x  : ctx.d.x += 1          append: ctx.log.append(<worker id>)    *)
(*   put_h  : returns a handle for the output heavy.h                      *)
(***************************************************************************)
Progs == {"inc_x", "append", "put_h"}

(* Two more, run side by side: ret_x declares the output d.x and supplies  *)
(* its value by returning it; inc_y writes d.y through the guard           *)
ReturnProgs == {"ret_x", "inc_y"}
NoProg == "none"
HeavyKeys == {"h"}
NoTicket == "none"

(* the retries argument the callers pass to execute: the default 0 of      *)
(* kwargs.pop("retries", 0), or a positive budget                          *)
Retries == {0, MaxRetries}

(* outcome of one run of the user function: it returns, it raises an      *)
(* exception of its own, or it raises an exception of its own whose text   *)
(* holds "CAS Version Mismatch" or "System Busy"; the store is not called  *)
(* inside the try block, so none of these is a conflict of the store       *)
Outcomes == {"ok", "user_error", "cas_text_error"}

(***************************************************************************)
(* Reading a path of a tree, and putting a node at a path of a patch.      *)
(***************************************************************************)
GetPath(tree, path) ==
    IF Len(path) = 1 THEN tree[path[1]] ELSE tree[path[1]].m[path[2]]

PutPath(patch, path, node) ==
    LET k == path[1]
        sub == IF k \in DOMAIN patch /\ patch[k].tag = "m"
               THEN patch[k].m ELSE EmptyMap
        new == IF Len(path) = 1 THEN node
               ELSE M([f \in (DOMAIN sub) \cup {path[2]} |->
                          IF f = path[2] THEN node ELSE sub[f]])
    IN [x \in (DOMAIN patch) \cup {k} |-> IF x = k THEN new ELSE patch[x]]

(***************************************************************************)
(* Transaction.build_pending_from_deltas: replay the delta log, in order,  *)
(* onto a fresh empty map structured by top-level key.                     *)
(***************************************************************************)
RECURSIVE build_pending_from_deltas(_)
build_pending_from_deltas(delta) ==
    IF delta = << >> THEN EmptyMap
    ELSE LET n == Len(delta)
         IN PutPath(build_pending_from_deltas(SubSeq(delta, 1, n - 1)),
                    delta[n].path, delta[n].new)

(* a user function's return value None *)
None == [tag |-> "none", v |-> 0, l |-> << >>, m |-> EmptyMap]

(***************************************************************************)
(* _attempt_execute, implicit output mapping of the returned value for a   *)
(* contract with one output path <<root, field>>: nothing for None;        *)
(* otherwise, if the root is not yet in pending_data it is filled with a   *)
(* copy of the root as the state holds it now, and the field is set in it. *)
(***************************************************************************)
output_mapping(pending_data, outputs, result, state_data) ==
    IF outputs = << >> \/ result = None THEN pending_data
    ELSE LET path == outputs[1]
             root == path[1]
             based == [k \in (DOMAIN pending_data) \cup {root} |->
                          IF k \in DOMAIN pending_data THEN pending_data[k]
                          ELSE state_data[root]]
         IN PutPath(based, path, result)

ApplyHeavy(h, hpatch) ==
    [k \in (DOMAIN h) \cup (DOMAIN hpatch) |->
        IF k \in DOMAIN hpatch THEN hpatch[k] ELSE h[k]]


(***************************************************************************)
(* The store's compare_and_swap (native core).  Answers with the outcome   *)
(* and the store as it is afterwards.                                      *)
(*   - a ticket held by somebody else: System Busy                         *)
(*   - expected = current: apply                                           *)
(*   - strict mode: any mismatch fails                                     *)
(*   - smart mode: fail when a path touched by a commit in                 *)
(*     (expected, current] collides with a path of the patch; otherwise    *)
(*     merge the patch into the CURRENT state                              *)
(* Every successful call mints a new version.                              *)
(***************************************************************************)
StalePaths(expected) ==
    UNION { history[v] : v \in (expected + 1)..version }

(* variant: conflicts are detected by top-level key *)
OverlapTopLevel(expected, dpatch) ==
    { p \in TouchedPaths(dpatch) :
        \E q \in StalePaths(expected) : p[1] = q[1] }

Overlap(expected, dpatch) ==
    { p \in TouchedPaths(dpatch) :
        \E q \in StalePaths(expected) : PathsCollide(p, q) }

(* variant: the merge is applied but no version is minted *)
AppliedUnversioned(dpatch, hpatch) ==
    [ok |-> TRUE, err |-> "none", version |-> version,
     data |-> deep_merge(data, dpatch), heavy |-> ApplyHeavy(heavy, hpatch),
     history |-> Append(history, TouchedPaths(dpatch))]

Applied(dpatch, hpatch) ==
    [ok |-> TRUE, err |-> "none", version |-> version + 1,
     data |-> deep_merge(data, dpatch), heavy |-> ApplyHeavy(heavy, hpatch),
     history |-> Append(history, TouchedPaths(dpatch))]

Rejected(err) ==
    [ok |-> FALSE, err |-> err, version |-> version, data |-> data,
     heavy |-> heavy, history |-> history]

(* variant: the store does not look at the priority ticket *)
core_compare_and_swap_no_ticket(expected, dpatch, hpatch, requester) ==
    IF expected = version THEN Applied(dpatch, hpatch)
    ELSE IF core_strict THEN Rejected("Strict CAS Mismatch")
    ELSE IF Overlap(expected, dpatch) # {} THEN Rejected("CAS Version Mismatch")
    ELSE Applied(dpatch, hpatch)

core_compare_and_swap(expected, dpatch, hpatch, requester) ==
    IF ticket # NoTicket /\ requester # ticket THEN Rejected("System Busy")
    ELSE IF expected = version THEN Applied(dpatch, hpatch)
    ELSE IF core_strict THEN Rejected("Strict CAS Mismatch")
    ELSE IF Overlap(expected, dpatch) # {} THEN Rejected("CAS Version Mismatch")
    ELSE Applied(dpatch, hpatch)

(* variant: the flag stays in the facade and never reaches the core *)
set_strict_cas_lost(flag) == FALSE

(* TheusEngine.__init__ hands the strict_cas argument to the core *)
set_strict_cas(flag) == flag

(* variant: the facade rejects every version mismatch before delegating *)
compare_and_swap_preflight(expected_version, dpatch, hpatch, requester) ==
    IF expected_version # version THEN Rejected("CAS Version Mismatch")
    ELSE core_compare_and_swap(expected_version, dpatch, hpatch, requester)

(* variant: the facade hands the core the current version as expected *)
compare_and_swap_current(expected_version, dpatch, hpatch, requester) ==
    core_compare_and_swap(version, dpatch, hpatch, requester)

(* TheusEngine.compare_and_swap: delegates to the core, arguments as given *)
compare_and_swap(expected_version, dpatch, hpatch, requester) ==
    core_compare_and_swap(expected_version, dpatch, hpatch, requester)

(* the record of one compare_and_swap, kept in last *)
CasRecord(kind, by, expected, dpatch, hpatch, requester, res) ==
    [kind |-> kind, by |-> by, expected |-> expected, dpatch |-> dpatch,
     pre_version |-> version, pre_data |-> data,
     stale |-> StalePaths(expected), strict |-> strict_cas,
     busy |-> (ticket # NoTicket /\ requester # ticket),
     holder |-> (ticket # NoTicket /\ requester = ticket),
     ok |-> res.ok, err |-> res.err]

NoCas ==
    [kind |-> "none", by |-> NoProc, expected |-> 0, dpatch |-> EmptyMap,
     pre_version |-> 0, pre_data |-> EmptyMap,
     stale |-> {}, strict |-> FALSE, busy |-> FALSE, holder |-> FALSE,
     ok |-> FALSE, err |-> "none"]

(***************************************************************************)
(* Conflict controller (native core).                                      *)
(* report_conflict: below the threshold count the conflict and answer      *)
(* "retry"; at the threshold grant the priority ticket to the name.        *)
(* report_success: clear the counter, release the ticket if held.          *)
(***************************************************************************)
(* variant: the ticket is granted from the second conflict on *)
report_conflict_eager(name) ==
    IF conflicts[name] >= 1
    THEN [should_retry |-> TRUE,
          ticket |-> IF ticket = NoTicket THEN name ELSE ticket,
          conflicts |-> conflicts]
    ELSE [should_retry |-> TRUE, ticket |-> ticket,
          conflicts |-> [conflicts EXCEPT ![name] = @ + 1]]

report_conflict(name) ==
    IF conflicts[name] >= ConflictThreshold
    THEN [should_retry |-> TRUE,
          ticket |-> IF ticket = NoTicket THEN name ELSE ticket,
          conflicts |-> conflicts]
    ELSE [should_retry |-> TRUE, ticket |-> ticket,
          conflicts |-> [conflicts EXCEPT ![name] = @ + 1]]

(* variant: the counter is cleared but the ticket stays with its holder *)
report_success_keep(name) ==
    [ticket |-> ticket,
     conflicts |-> [conflicts EXCEPT ![name] = 0]]

report_success(name) ==
    [ticket |-> IF ticket = name THEN NoTicket ELSE ticket,
     conflicts |-> [conflicts EXCEPT ![name] = 0]]

(***************************************************************************)
(* Transaction (native core).                                              *)
(***************************************************************************)
NoTx ==
    [base |-> 0, snap |-> EmptyMap, delta |-> << >>, pdata |-> EmptyMap,
     pheavy |-> EmptyMap, outbox |-> << >>]

(* Transaction(core): captures the base version and an immutable snapshot *)
OpenTx ==
    [base |-> version, snap |-> data, delta |-> << >>, pdata |-> EmptyMap,
     pheavy |-> EmptyMap, outbox |-> << >>]

(* what the Transaction submits when it closes without an exception *)
TxPatch(t) == deep_merge(build_pending_from_deltas(t.delta), t.pdata)

Msg(i, n) == [p |-> i, att |-> n]

(* bookkeeping of one execute call: the attempts whose Transaction was     *)
(* committed, and whether the user function raised in some attempt         *)
NoAcct == [done |-> {}, failed |-> {}, threw |-> FALSE, reported |-> {}]

(***************************************************************************)
(* The guard's write on behalf of the user function: the delta entry is    *)
(* recorded in the transaction and the new value lives in the shadow; the  *)
(* store is not touched.  Answers the transaction and the store data.      *)
(***************************************************************************)
ProgPath(p) ==
    CASE p = "inc_x" -> <<"d", "x">>
      [] p = "inc_y" -> <<"d", "y">>
      [] p = "append" -> <<"log">>
      [] OTHER -> << >>

(* contract.outputs that the process serves by its return value, and the   *)
(* value it returns                                                        *)
ProgOutputs(p) == IF p = "ret_x" THEN << <<"d", "x">> >> ELSE << >>
ProgResult(p) == IF p = "ret_x" THEN S(7) ELSE None

(* variant: the new value is also stored in the committed tree (the      *)
(* shadow shares the original)                                             *)
guard_write_through(t, i, p) ==
    IF ProgPath(p) = << >> THEN [tx |-> t, data |-> data]
    ELSE LET path == ProgPath(p)
             old == GetPath(t.snap, path)
             new == IF p = "append" THEN L(Append(old.l, i))
                    ELSE S(old.v + 1)
             op == IF p = "append" THEN "APPEND" ELSE "SET"
         IN [tx |-> [t EXCEPT !.delta = Append(@,
                        [path |-> path, op |-> op, old |-> old, new |-> new])],
             data |-> deep_merge(data, PutPath(EmptyMap, path, new))]

guard_write(t, i, p) ==
    IF ProgPath(p) = << >> THEN [tx |-> t, data |-> data]
    ELSE LET path == ProgPath(p)
             old == GetPath(t.snap, path)
             new == IF p = "append" THEN L(Append(old.l, i))
                    ELSE S(old.v + 1)
             op == IF p = "append" THEN "APPEND" ELSE "SET"
         IN [tx |-> [t EXCEPT !.delta = Append(@,
                        [path |-> path, op |-> op, old |-> old, new |-> new])],
             data |-> data]


(***************************************************************************)
(* Inputs of the host's direct calls.                                      *)
(***************************************************************************)
Patches ==
    { Map1("a", S(7)),
      Map1("d", M(Map1("x", S(7)))),
      Map1("d", M(Map1("y", S(7)))) }
CasCalls ==
    { [dp |-> p, hp |-> EmptyMap] : p \in Patches }
    \cup { [dp |-> Map1("a", S(7)), hp |-> Map1("h", 7)] }
Requesters == {"anon", "append"}
DirectNames == {"append"}

(***************************************************************************)
(* Context guard (src/theus/guards.py) over the native guard and proxies.  *)
(* One namespace, "domain", with one field per zone.  The Python           *)
(* ContextGuard makes its own checks and then delegates to the native      *)
(* object it wraps; the native object follows the design document.         *)
(***************************************************************************)
MaxOps == 2
MaxRuns == 2
MaxList == 2
MaxAdminDepth == 2

CAP_READ == 1
CAP_UPDATE == 2
CAP_APPEND == 4
CAP_DELETE == 8
CAP_ALL == CAP_READ + CAP_UPDATE + CAP_APPEND + CAP_DELETE

(* masks _parse_physics_overrides registers for the three annotations *)
Mutable == 15
AppendOnly == 3
Immutable == 1

HasBit(mask, bit) == (mask \div bit) % 2 = 1

Fields == {"const_list", "internal_s", "log_ev", "data_x"}
ListFields == {"const_list", "log_ev"}
Elems == {1, 2}

(* segment.startswith("const_"), segment.startswith("internal_"),          *)
(* key.startswith(PREFIX_LOG)                                              *)
IsConst(f) == f \in {"const_list"}
IsInternal(f) == f \in {"internal_s"}
IsLog(f) == f \in {"log_ev"}

(* the context the engine is built from *)
InitContext ==
    [f \in Fields |-> IF f = "const_list" THEN <<1>>
                      ELSE IF f = "log_ev" THEN << >> ELSE 0]

(* NamespacePolicy and NamespacePolicy.to_caps *)
NamespacePolicy(r, u, a, d) ==
    [allow_read |-> r, allow_update |-> u, allow_append |-> a,
     allow_delete |-> d]
to_caps(policy) ==
    (IF policy.allow_read THEN CAP_READ ELSE 0)
    + (IF policy.allow_update THEN CAP_UPDATE ELSE 0)
    + (IF policy.allow_append THEN CAP_APPEND ELSE 0)
    + (IF policy.allow_delete THEN CAP_DELETE ELSE 0)

(* NamespacePolicy(), NamespacePolicy(allow_update=False) and a policy     *)
(* that allows no write at all                                             *)
DefaultPolicy == NamespacePolicy(TRUE, TRUE, TRUE, FALSE)
Policies == { DefaultPolicy,
              NamespacePolicy(TRUE, FALSE, TRUE, FALSE),
              NamespacePolicy(TRUE, FALSE, FALSE, FALSE) }

(* contracts of the registered processes: declared input and output paths  *)
(* below "domain"; "*" is the wildcard pattern                             *)
Contracts ==
    { [inputs |-> {"*"}, outputs |-> Fields],
      [inputs |-> {"log_ev", "data_x"}, outputs |-> {"data_x"}] }
NoContract == [inputs |-> {}, outputs |-> {}]

(* fnmatch / sub-path match of "domain.<f>" (or a key below it) against    *)
(* a set of patterns                                                       *)
Covered(f, patterns) == "*" \in patterns \/ f \in patterns

(* guard operations and the access mode / capability each one needs *)
ReadKinds == {"getattr", "getitem"}
WriteKinds == {"setattr", "setitem_str", "setitem_idx", "append", "pop",
               "clear"}
Kinds == ReadKinds \cup WriteKinds
OpMode(kind) ==
    CASE kind \in ReadKinds -> "read"
      [] kind \in {"setattr", "setitem_str", "setitem_idx"} -> "write"
      [] kind = "append" -> "append"
      [] OTHER -> "delete"
OpCap(kind) ==
    CASE OpMode(kind) = "read" -> CAP_READ
      [] OpMode(kind) = "write" -> CAP_UPDATE
      [] OpMode(kind) = "append" -> CAP_APPEND
      [] OTHER -> CAP_DELETE

(* ---- ContextGuard.__init__: namespace policy pre-filter ---------------- *)
final_inputs(c, policy) == IF policy.allow_read THEN c.inputs ELSE {}
final_outputs(c, policy) ==
    IF policy.allow_update \/ policy.allow_append \/ policy.allow_delete
    THEN c.outputs ELSE {}

(* ---- ContextGuard._check_zone_physics ---------------------------------- *)
(* segs: the path segments the guard sees; has_override: the path or its   *)
(* base path is a key of PYTHON_PHYSICS_OVERRIDES                          *)
check_zone_physics(segs, has_override, mode, is_admin) ==
    IF \E s \in segs : IsConst(s) /\ mode \in {"write", "append", "delete"}
                       /\ ~has_override
    THEN "PermissionError"
    ELSE IF \E s \in segs : IsInternal(s) /\ mode = "read" /\ ~is_admin
    THEN "hidden"
    ELSE "ok"

(* A guard produced while its parent is elevated is built without          *)
(* path_prefix, so the path it computes is the bare name (attribute and    *)
(* string-key access) or "?" (container methods); a non-string key skips   *)
(* the Python checks; __getitem__ makes no zone check.                     *)
PySegments(kind, f, is_admin) ==
    CASE kind \in {"getattr", "setattr", "setitem_str"} -> {f}
      [] kind \in {"append", "pop", "clear"} -> IF is_admin THEN {} ELSE {f}
      [] OTHER -> {}
(* variant: the Python check knows no override *)
PyNoOverride(f, is_admin, overrides) == FALSE
PyHasOverride(f, is_admin, overrides) == ~is_admin /\ f \in DOMAIN overrides

(* ---- ContextGuard._is_allowed ------------------------------------------ *)
(* variant: the whitelist is enforced on every path, registered or not *)
is_allowed_everywhere(f, mode, is_admin, registered, whitelist) ==
    \/ is_admin
    \/ IF mode = "read"
       THEN Covered(f, whitelist.inputs \cup whitelist.outputs)
       ELSE Covered(f, whitelist.outputs)

is_allowed(f, mode, is_admin, registered, whitelist) ==
    \/ is_admin
    \/ ~registered
    \/ IF mode = "read"
       THEN Covered(f, whitelist.inputs \cup whitelist.outputs)
       ELSE Covered(f, whitelist.outputs)

(* ---- native guard and proxies ------------------------------------------ *)
(* variant: the LOG zone is treated as DATA *)
ZoneMaskLogOpen(f) ==
    CASE IsConst(f) -> CAP_READ
      [] IsInternal(f) -> 0
      [] OTHER -> CAP_ALL

(* variant: the PRIVATE zone is treated as DATA *)
ZoneMaskPrivateOpen(f) ==
    CASE IsConst(f) -> CAP_READ
      [] IsLog(f) -> CAP_READ + CAP_APPEND
      [] OTHER -> CAP_ALL

ZoneMask(f) ==
    CASE IsConst(f) -> CAP_READ
      [] IsLog(f) -> CAP_READ + CAP_APPEND
      [] IsInternal(f) -> 0
      [] OTHER -> CAP_ALL

(* variant: elevation lifts every ceiling, the CONSTANT one included *)
EffectiveCapsNoCeiling(f, elevated, overrides) ==
    IF elevated THEN CAP_ALL
    ELSE IF f \in DOMAIN overrides THEN overrides[f]
    ELSE ZoneMask(f)

EffectiveCaps(f, elevated, overrides) ==
    IF elevated /\ ~IsConst(f) THEN CAP_ALL
    ELSE IF f \in DOMAIN overrides THEN overrides[f]
    ELSE ZoneMask(f)

native_permits(f, cap, elevated, overrides) ==
    HasBit(EffectiveCaps(f, elevated, overrides), cap)

(* variant: an elevated guard is exempt from the contract *)
native_contract_bypass(f, mode, elevated, strict, whitelist) ==
    \/ elevated
    \/ ~strict
    \/ IF mode = "read"
       THEN Covered(f, whitelist.inputs \cup whitelist.outputs)
       ELSE Covered(f, whitelist.outputs)

native_contract(f, mode, elevated, strict, whitelist) ==
    \/ ~strict
    \/ IF mode = "read"
       THEN Covered(f, whitelist.inputs \cup whitelist.outputs)
       ELSE Covered(f, whitelist.outputs)

(* attribute or string-key read through the native guard *)
native_read(f, elevated, strict, whitelist) ==
    IF IsInternal(f) /\ ~elevated THEN "hidden"
    ELSE IF ~native_contract(f, "read", elevated, strict, whitelist)
    THEN "ContractViolationError"
    ELSE "ok"

(* attribute or string-key write through the native guard *)
native_write(f, elevated, strict, whitelist, overrides) ==
    IF ~native_permits(f, CAP_UPDATE, elevated, overrides)
    THEN "PermissionError"
    ELSE IF ~native_contract(f, "write", elevated, strict, whitelist)
    THEN "ContractViolationError"
    ELSE "ok"

(* item assignment and container methods of a proxy: capability only *)
proxy_op(kind, f, elevated, overrides) ==
    IF native_permits(f, OpCap(kind), elevated, overrides)
    THEN "ok" ELSE "PermissionError"

(* ---- ContextGuard methods, as the guard in use runs them --------------- *)
(* is_admin is the _local_is_admin flag of the guard the operation is      *)
(* called on; the native side is elevated while an AdminTransaction scope  *)
(* is open.                                                                *)
Elevated == Len(admin_stack) > 0

getattr(f, is_admin) ==
    IF check_zone_physics(PySegments("getattr", f, is_admin),
                          PyHasOverride(f, is_admin, physics_overrides),
                          "read", is_admin) = "hidden"
    THEN "hidden"
    ELSE IF ~is_allowed(f, "read", is_admin, ns_registered, allowed)
    THEN "PermissionError"
    ELSE native_read(f, Elevated, strict_guards, allowed)

getitem(f, is_admin) ==
    IF ~is_allowed(f, "read", is_admin, ns_registered, allowed)
    THEN "PermissionError"
    ELSE native_read(f, Elevated, strict_guards, allowed)

(* __setattr__ and __setitem__ with a string key *)
setattr(kind, f, is_admin) ==
    IF check_zone_physics(PySegments(kind, f, is_admin),
                          PyHasOverride(f, is_admin, physics_overrides),
                          "write", is_admin) = "PermissionError"
    THEN "PermissionError"
    ELSE IF ~is_allowed(f, "write", is_admin, ns_registered, allowed)
    THEN "PermissionError"
    ELSE native_write(f, Elevated, strict_guards, allowed, physics_overrides)

(* __setitem__ with a non-string key, append, pop, clear on the guard of   *)
(* the list at field f                                                     *)
container_op(kind, f, is_admin) ==
    IF check_zone_physics(PySegments(kind, f, is_admin),
                          PyHasOverride(f, is_admin, physics_overrides),
                          OpMode(kind), is_admin) = "PermissionError"
    THEN "PermissionError"
    ELSE IF proxy_op(kind, f, Elevated, physics_overrides) = "ok"
    THEN "ok"
    ELSE IF kind = "clear" /\ is_admin
    THEN (* parent-level overwrite: parent[name] = [] *)
         IF setattr("setitem_str", f, TRUE) = "ok"
         THEN "ok" ELSE "PermissionError"
    ELSE "PermissionError"

guard_call(kind, f, is_admin) ==
    CASE kind = "getattr" -> getattr(f, is_admin)
      [] kind = "getitem" -> getitem(f, is_admin)
      [] kind \in {"setattr", "setitem_str"} -> setattr(kind, f, is_admin)
      [] OTHER -> container_op(kind, f, is_admin)

(* the value of field f after a permitted write *)
Written(kind, f, v, old) ==
    CASE kind \in {"setattr", "setitem_str"} ->
             IF f \in ListFields THEN <<v>> ELSE v
      [] kind = "setitem_idx" -> [old EXCEPT ![1] = v]
      [] kind = "append" -> Append(old, v)
      [] kind = "pop" -> SubSeq(old, 1, Len(old) - 1)
      [] OTHER -> << >>

(* ---- nested guards ----------------------------------------------------- *)
(* ContextGuard.__getattr__ / __getitem__ wrapping the value found at key: *)
(* the normal flow passes path_prefix = full_path and the parent's         *)
(* allowed_inputs and allowed_outputs; the flow of an elevated guard       *)
(* passes the same sets but no path_prefix, which then is the empty path   *)
nested_prefix(parent_prefix, key, is_admin) ==
    IF is_admin THEN << >> ELSE Append(parent_prefix, key)

(* path_prefix of the guard an operation is called on: ctx.domain for      *)
(* attribute and string-key access, ctx.domain.<f> for item assignment by  *)
(* index and container methods                                             *)
guard_prefix(kind, f, is_admin) ==
    LET domain_guard == nested_prefix(<< >>, "domain", is_admin)
    IN IF kind \in {"setitem_idx", "append", "pop", "clear"}
       THEN nested_prefix(domain_guard, f, is_admin)
       ELSE domain_guard

NoCall ==
    [kind |-> "none", f |-> "none", is_admin |-> FALSE, res |-> "none",
     prefix |-> << >>]

NoTrace == [run |-> << >>, committed |-> << >>, admin |-> FALSE]

(* ---- actions ------------------------------------------------------------ *)
GuardInit ==
    /\ strict_guards \in BOOLEAN
    /\ physics_overrides \in
           { << >>,
             [p \in {"const_list"} |-> Mutable],
             [p \in {"const_list"} |-> Immutable],
             [p \in {"log_ev"} |-> AppendOnly] }
    /\ ns_registered \in BOOLEAN
    /\ ns_policy \in Policies
    /\ ~ns_registered => ns_policy = DefaultPolicy
    /\ contract = NoContract
    /\ allowed = NoContract
    /\ gpc = "idle"
    /\ local_is_admin = FALSE
    /\ admin_stack = << >>
    /\ kept_admin = FALSE
    /\ gstore = InitContext
    /\ shadow = InitContext
    /\ delta_log = {}
    /\ glast = NoCall
    /\ log_trace = NoTrace
    /\ ops = 0
    /\ runs = 0

(* engine.execute builds the guard for a process over a fresh transaction *)
GuardBegin(c) ==
    /\ gpc = "idle"
    /\ runs < MaxRuns
    /\ contract' = c
    /\ allowed' = [inputs |-> final_inputs(c, ns_policy),
                   outputs |-> final_outputs(c, ns_policy)]
    /\ gpc' = "run"
    /\ local_is_admin' = FALSE
    /\ admin_stack' = << >>
    /\ kept_admin' = FALSE
    /\ shadow' = gstore
    /\ delta_log' = {}
    /\ glast' = NoCall
    /\ log_trace' = [log_trace EXCEPT !.run = log_trace.committed]
    /\ runs' = runs + 1
    /\ UNCHANGED <<auxVars, engineVars, auditVars, pureVars>>
    /\ UNCHANGED <<auxVars, strict_guards, physics_overrides, ns_registered, ns_policy,
                   gstore, ops>>

(* AdminTransaction.__enter__ / __exit__ on the process's guard *)
AdminEnter ==
    /\ gpc = "run"
    /\ Len(admin_stack) < MaxAdminDepth
    /\ admin_stack' = Append(admin_stack, local_is_admin)
    /\ local_is_admin' = TRUE
    /\ UNCHANGED <<auxVars, engineVars, auditVars, pureVars>>
    /\ UNCHANGED <<auxVars, strict_guards, physics_overrides, ns_registered, ns_policy,
                   contract, allowed, gpc, kept_admin, shadow, gstore,
                   delta_log, glast, log_trace, ops, runs>>

AdminExit ==
    /\ gpc = "run"
    /\ Len(admin_stack) > 0
    /\ local_is_admin' = admin_stack[Len(admin_stack)]
    /\ admin_stack' = SubSeq(admin_stack, 1, Len(admin_stack) - 1)
    /\ UNCHANGED <<auxVars, engineVars, auditVars, pureVars>>
    /\ UNCHANGED <<auxVars, strict_guards, physics_overrides, ns_registered, ns_policy,
                   contract, allowed, gpc, kept_admin, shadow, gstore,
                   delta_log, glast, log_trace, ops, runs>>

(* the process keeps a reference to a guard __getattr__ returned while the *)
(* guard it was called on was elevated: the new guard got _elevate(True)   *)
KeepChild ==
    /\ gpc = "run"
    /\ local_is_admin
    /\ ~kept_admin
    /\ kept_admin' = TRUE
    /\ UNCHANGED <<auxVars, engineVars, auditVars, pureVars>>
    /\ UNCHANGED <<auxVars, strict_guards, physics_overrides, ns_registered, ns_policy,
                   contract, allowed, gpc, local_is_admin, admin_stack,
                   shadow, gstore, delta_log, glast, log_trace, ops, runs>>

GuardOp(kind, f, v, is_admin) ==
    LET res == guard_call(kind, f, is_admin)
        wrote == res = "ok" /\ kind \in WriteKinds
    IN
    /\ gpc = "run"
    /\ ops < MaxOps
    /\ is_admin \in {local_is_admin} \cup (IF kept_admin THEN {TRUE} ELSE {})
    /\ kind \in {"setitem_idx", "append", "pop", "clear"} =>
           f \in ListFields /\ getattr(f, is_admin) = "ok"
    /\ wrote /\ kind \in {"setitem_idx", "pop"} => Len(shadow[f]) > 0
    /\ wrote /\ kind = "append" => Len(shadow[f]) < MaxList
    /\ shadow' = IF wrote
                 THEN [shadow EXCEPT ![f] = Written(kind, f, v, shadow[f])]
                 ELSE shadow
    /\ delta_log' = IF wrote
                    THEN delta_log \cup {f}
                    ELSE delta_log
    /\ glast' = [kind |-> kind, f |-> f, is_admin |-> is_admin, res |-> res,
                 prefix |-> guard_prefix(kind, f, is_admin)]
    /\ log_trace' =
           IF wrote /\ f = "log_ev"
           THEN IF is_admin \/ Elevated \/ kind # "append"
                THEN [log_trace EXCEPT !.admin = TRUE]
                ELSE [log_trace EXCEPT !.run = Append(log_trace.run, v)]
           ELSE log_trace
    /\ ops' = ops + 1
    /\ UNCHANGED <<auxVars, engineVars, auditVars, pureVars>>
    /\ UNCHANGED <<auxVars, strict_guards, physics_overrides, ns_registered, ns_policy,
                   contract, allowed, gpc, local_is_admin, admin_stack,
                   kept_admin, gstore, runs>>

(* variant: the gatekeeper accepts every delta log *)
validate_nothing(deltas, c) == TRUE

(* _validate_contract_compliance over the delta log *)
validate_contract_compliance(deltas, c) ==
    \A path \in deltas : Covered(path, c.outputs)

(* the process returned: the engine checks the contract and commits *)
GuardEnd ==
    LET compliant == ~strict_guards
                     \/ validate_contract_compliance(delta_log, contract)
    IN
    /\ gpc = "run"
    /\ admin_stack = << >>
    /\ gpc' = "idle"
    /\ gstore' = IF compliant THEN shadow ELSE gstore
    /\ glast' = [NoCall EXCEPT !.kind = "commit",
                               !.res = IF compliant THEN "ok"
                                       ELSE "ContractViolationError"]
    /\ log_trace' = IF compliant
                    THEN [log_trace EXCEPT !.committed = log_trace.run]
                    ELSE log_trace
    /\ UNCHANGED <<auxVars, engineVars, auditVars, pureVars>>
    /\ UNCHANGED <<auxVars, strict_guards, physics_overrides, ns_registered, ns_policy,
                   contract, allowed, local_is_admin, admin_stack, kept_admin,
                   shadow, delta_log, ops, runs>>

(* the process raised: the transaction is dropped *)
GuardAbort ==
    /\ gpc = "run"
    /\ admin_stack = << >>
    /\ gpc' = "idle"
    /\ glast' = [NoCall EXCEPT !.kind = "abort"]
    /\ UNCHANGED <<auxVars, engineVars, auditVars, pureVars>>
    /\ UNCHANGED <<auxVars, strict_guards, physics_overrides, ns_registered, ns_policy,
                   contract, allowed, local_is_admin, admin_stack, kept_admin,
                   shadow, gstore, delta_log, log_trace, ops, runs>>

(* the guard layer before any process has run, with the engine defaults *)
(***************************************************************************)
(* Audit system (native core, wrapped by src/theus/audit.py), its          *)
(* validator (src/theus/validator.py) and their calls from                 *)
(* TheusEngine._attempt_execute.  One process, p_signup, with one rule on  *)
(* its input "age" and one on its output "domain.score".                   *)
(***************************************************************************)
KeyName == "p_signup"
KeyIn == "p_signup:input:age"
KeyOut == "p_signup:output:domain.score"
AuditKeys == {KeyName, KeyIn, KeyOut}

AuditLevels == {"Count", "Block", "Abort", "Stop"}
Thresholds == {1, MaxThreshold}

(* AuditRecipe(level, threshold_max, reset_on_success) *)
AuditRecipe(level, threshold_max, reset_on_success) ==
    [level |-> level, threshold_max |-> threshold_max,
     reset_on_success |-> reset_on_success]

Recipes ==
    { AuditRecipe(l, m, r) : l \in AuditLevels, m \in Thresholds, r \in BOOLEAN }

(* an engine built without audit_recipe: self._audit is None *)
NoRecipe == AuditRecipe("none", 0, FALSE)

(* variant: the call that reaches threshold_max already raises *)
log_fail_at_max(count, key) ==
    LET n == count[key] + 1
        lv == audit_recipe.level
    IN [count |-> [count EXCEPT ![key] = n],
        err |-> CASE lv = "Stop" -> "AuditStop"
                  [] lv = "Block" /\ n >= audit_recipe.threshold_max -> "AuditBlock"
                  [] lv = "Abort" /\ n >= audit_recipe.threshold_max -> "AuditAbort"
                  [] OTHER -> "none"]

(* AuditSystem.log_fail(key), level and threshold of the recipe: count,    *)
(* then act on the level: Stop raises at once, Block and Abort raise once  *)
(* the count is above threshold_max, Count never raises                    *)
log_fail(count, key) ==
    LET n == count[key] + 1
        lv == audit_recipe.level
    IN [count |-> [count EXCEPT ![key] = n],
        err |-> CASE lv = "Stop" -> "AuditStop"
                  [] lv = "Block" /\ n > audit_recipe.threshold_max -> "AuditBlock"
                  [] lv = "Abort" /\ n > audit_recipe.threshold_max -> "AuditAbort"
                  [] OTHER -> "none"]

(* variant: a success clears every counter *)
log_success_all(count, key) ==
    IF audit_recipe.reset_on_success THEN [k \in AuditKeys |-> 0] ELSE count

(* AuditSystem.log_success(key) *)
log_success(count, key) ==
    IF audit_recipe.reset_on_success THEN [count EXCEPT ![key] = 0] ELSE count

(* AuditValidator._check_rule: a violation of the rule is logged under     *)
(* "<func_name>:<key_suffix>"; the rule carries no level or threshold of   *)
(* its own, so log_fail works with the recipe's                            *)
check_rule(count, key, violation) ==
    IF violation THEN log_fail(count, key)
    ELSE [count |-> count, err |-> "none"]

(* AuditValidator.validate_inputs / validate_outputs for p_signup *)
validate_inputs(count, age_bad) == check_rule(count, KeyIn, age_bad)

(* how p_signup supplies domain.score: by a write through the guard, which *)
(* puts it in the delta log, or by its return value                        *)
Vias == {"guard", "return"}

(* AuditValidator._resolve_path on the pending data built from the delta   *)
(* log: whether the rule's field is in it                                  *)
resolve_path(via) == via = "guard"

(* validate_outputs: a rule whose field is not in pending_data is skipped *)
validate_outputs(count, via, score_bad) ==
    IF resolve_path(via) THEN check_rule(count, KeyOut, score_bad)
    ELSE [count |-> count, err |-> "none"]

(* the except clause of _attempt_execute: log_fail under the function's    *)
(* name; an exception of the audit system replaces the one being handled   *)
attempt_except(count, err) ==
    LET lf == log_fail(count, KeyName)
    IN [count |-> lf.count,
        err |-> IF lf.err # "none" THEN lf.err ELSE err]

(* the log_fail calls of one attempt, by key *)
Calls(n_in, n_out, n_name) ==
    [k \in AuditKeys |->
        CASE k = KeyIn -> n_in [] k = KeyOut -> n_out [] OTHER -> n_name]

(***************************************************************************)
(* One _attempt_execute of p_signup on an engine with an audit recipe:     *)
(* the input gate (before the try block), the user function, the output    *)
(* gate (called twice in a row) on the pending data of the delta log, the  *)
(* mapping of the returned value, log_success under the function's name.   *)
(* Answers the counters, the error raised ("none": the attempt succeeded), *)
(* whether the user function ran, the counters as they were just before    *)
(* log_success, the log_fail calls made, whether the output gate saw the   *)
(* score, and whether it met a violating score in the pending data.        *)
(***************************************************************************)
attempt_execute(count, age_bad, score_bad, user_raises, via) ==
    LET vi == validate_inputs(count, age_bad)
        ex == attempt_except(vi.count, "user_error")
        o1 == validate_outputs(vi.count, via, score_bad)
        x1 == attempt_except(o1.count, o1.err)
        o2 == validate_outputs(o1.count, via, score_bad)
        x2 == attempt_except(o2.count, o2.err)
        n_in == IF age_bad THEN 1 ELSE 0
        seen == resolve_path(via)
        bad == seen /\ score_bad
    IN IF vi.err # "none"
       THEN [count |-> vi.count, err |-> vi.err, ran |-> FALSE,
             before |-> vi.count, calls |-> Calls(n_in, 0, 0),
             checked |-> FALSE, viol |-> FALSE]
       ELSE IF user_raises
       THEN [count |-> ex.count, err |-> ex.err, ran |-> TRUE,
             before |-> ex.count, calls |-> Calls(n_in, 0, 1),
             checked |-> FALSE, viol |-> FALSE]
       ELSE IF o1.err # "none"
       THEN [count |-> x1.count, err |-> x1.err, ran |-> TRUE,
             before |-> x1.count, calls |-> Calls(n_in, 1, 1),
             checked |-> seen, viol |-> bad]
       ELSE IF o2.err # "none"
       THEN [count |-> x2.count, err |-> x2.err, ran |-> TRUE,
             before |-> x2.count, calls |-> Calls(n_in, 2, 1),
             checked |-> seen, viol |-> bad]
       ELSE [count |-> log_success(o2.count, KeyName), err |-> "none",
             ran |-> TRUE, before |-> o2.count,
             calls |-> Calls(n_in, IF bad THEN 2 ELSE 0, 0),
             checked |-> seen, viol |-> bad]

NoAudit ==
    [op |-> "none", key |-> KeyName, nth |-> 0, err |-> "none", ran |-> FALSE,
     committed |-> FALSE, before |-> [k \in AuditKeys |-> 0],
     pre_version |-> 0, pre_data |-> EmptyMap,
     via |-> "none", checked |-> FALSE, viol |-> FALSE]

AuditInit ==
    /\ audit_count = [k \in AuditKeys |-> 0]
    /\ fails_since = [k \in AuditKeys |-> 0]
    /\ alast = NoAudit

AuditIdle ==
    /\ AuditInit
    /\ audit_recipe = NoRecipe

(***************************************************************************)
(* The view of a PURE process (RestrictedStateProxy over the state object  *)
(* that ctx.restrict_view() returns, FilteredDomainProxy per zone).        *)
(* A path is <<zone, key>>; an input pattern is the list of the segments   *)
(* of its dotted form.                                                     *)
(***************************************************************************)
PureZones == {"domain", "global", "heavy"}
PureKeys == {"k1", "k2"}

(* contract.inputs of the PURE processes registered *)
InputLists ==
    { << >>,
      << <<"domain", "k1">> >>,
      << <<"domain", "k1">>, <<"heavy", "k1">> >>,
      << <<"global_", "k2">> >>,
      << <<"domain">> >>,
      << <<"domain", "k1">>, <<"domain">> >>,
      << <<"domain">>, <<"domain", "k1">> >> }

ZoneOf(name) == IF name = "global_" THEN "global" ELSE name

(* the key sets of a view: per zone a set of keys, or the wildcard (None   *)
(* in the code); failed: __init__ raised                                   *)
EmptyView ==
    [keys |-> [z \in PureZones |-> {}], all |-> [z \in PureZones |-> FALSE],
     failed |-> FALSE]

(* no view: no PURE process is running, or __init__ has raised *)
NoView == [EmptyView EXCEPT !.failed = TRUE]

(* RestrictedStateProxy.__init__: the loop over allowed_paths.  A pattern  *)
(* of two or more segments adds its second segment to the key set of its   *)
(* zone (set.add on the wildcard None raises); a pattern of one segment    *)
(* turns the key set of its zone into the wildcard.                        *)
RECURSIVE RestrictedStateProxy(_)
RestrictedStateProxy(allowed_paths) ==
    IF allowed_paths = << >> THEN EmptyView
    ELSE LET n == Len(allowed_paths)
             v == RestrictedStateProxy(SubSeq(allowed_paths, 1, n - 1))
             parts == allowed_paths[n]
             zone == ZoneOf(parts[1])
         IN IF v.failed \/ zone \notin PureZones THEN v
            ELSE IF Len(parts) >= 2
            THEN IF v.all[zone] THEN [v EXCEPT !.failed = TRUE]
                 ELSE [v EXCEPT !.keys[zone] = @ \cup {parts[2]}]
            ELSE [v EXCEPT !.all[zone] = TRUE]

(* FilteredDomainProxy.__getitem__ / get / __getattr__: the key check *)
FilteredDomainProxy(allowed_keys, key) ==
    IF key \notin allowed_keys THEN "ContractViolationError" ELSE "value"

(* the access routes of the view: its properties domain, global_, heavy    *)
(* and data                                                                *)
PureRoutes == {"domain", "global_", "heavy", "data"}

(* the zones of the state held in the data mapping *)
DataZones == {"domain", "global"}

(* one read of <<zone, key>> through a route of the view: the zone         *)
(* properties answer the zone object itself under the wildcard and a       *)
(* FilteredDomainProxy otherwise; the data property answers the state's    *)
(* data mapping                                                            *)
view_read(view, route, zone, key) ==
    IF route = "data" THEN "value"
    ELSE IF view.all[zone] THEN "value"
    ELSE FilteredDomainProxy(view.keys[zone], key)

NoRead == [route |-> "none", zone |-> "domain", key |-> "k1", res |-> "none"]

(* contract.outputs of the PURE processes registered: none, or the field  *)
(* x of the domain                                                         *)
OutputLists == { << >>, << <<"d", "x">> >> }

(* what a PURE process tries on <<zone, key>> through a route of its view  *)
PureWriteKinds == {"set", "del", "mutate"}

(* one write through a route of the view.  A FilteredDomainProxy raises    *)
(* ContractViolationError on __setitem__, __setattr__, __delitem__ and     *)
(* __delattr__, for declared and undeclared keys alike, and hands out      *)
(* lists as tuples and mappings as MappingProxyType, which refuse a        *)
(* mutation with TypeError; an undeclared key raises before any value is   *)
(* handed out.  Under the wildcard and on the data route the object is the *)
(* state's own frozen mapping, which refuses every write.                  *)
view_write(view, route, zone, key, kind) ==
    IF route = "data" \/ view.all[zone] THEN "TypeError"
    ELSE IF kind \in {"set", "del"} THEN "ContractViolationError"
    ELSE IF key \notin view.keys[zone] THEN "ContractViolationError"
    ELSE "TypeError"

(***************************************************************************)
(* Trees a deep merge is tried on: a scalar or a list under "a"; a scalar, *)
(* a list or a mapping of scalars and lists under "d"; either key may be   *)
(* absent.                                                                 *)
(***************************************************************************)
MergeLeaves == {S(0), S(1), L(<<1>>)}
MergeFields == {"x", "y"}
MergeNodes ==
    MergeLeaves \cup
    { M(m) : m \in UNION { [E -> MergeLeaves] : E \in SUBSET MergeFields } }
MergeTrees ==
    { t \in UNION { [D -> MergeNodes] : D \in SUBSET {"a", "d"} } :
        "a" \in DOMAIN t => t["a"] \in MergeLeaves }

Receivers == 1 .. NumReceivers
NotSubscribed == 0 - 1

(* subscribe at the tail instead of replaying what the channel retains *)
subscribe_replay(published) ==
    IF Len(published) > HubCapacity THEN Len(published) - HubCapacity ELSE 0

(* SignalHub.subscribe: the receiver starts behind the last message        *)
(* published; the answer is the number of messages it skips                *)
subscribe(published) == Len(published)

(* position of the oldest message the channel still retains *)
oldest(published) ==
    IF Len(published) > HubCapacity THEN Len(published) - HubCapacity + 1 ELSE 1

(* messages published and not yet consumed by a receiver due at next *)
unconsumed(published, next) == Len(published) - (next - 1)

(***************************************************************************)
(* SignalReceiver.recv with a message or a lag pending: a receiver whose   *)
(* next message has been overwritten gets RuntimeError "Channel Lagged"    *)
(* and is moved to the oldest retained message; otherwise it gets its next *)
(* message.                                                                *)
(***************************************************************************)
recv(published, next) ==
    IF next < oldest(published)
    THEN [err |-> TRUE, msg |-> 0, next |-> oldest(published)]
    ELSE [err |-> FALSE, msg |-> published[next], next |-> next + 1]

HubIdle ==
    /\ hub_published = << >>
    /\ hub_start = [r \in Receivers |-> NotSubscribed]
    /\ hub_next = [r \in Receivers |-> 1]
    /\ hub_got = [r \in Receivers |-> << >>]
    /\ hub_over = [r \in Receivers |-> FALSE]
    /\ hub_err = [r \in Receivers |-> FALSE]

MergeIdle ==
    /\ m_base = EmptyMap
    /\ m_patch = EmptyMap
    /\ m_out = EmptyMap
    /\ m_step = 0

MergeInit ==
    /\ m_base \in MergeTrees
    /\ m_patch \in MergeTrees
    /\ m_out = m_base
    /\ m_step = 0

PureIdle ==
    /\ pure_inputs = << >>
    /\ pure_outputs = << >>
    /\ pure_view = NoView
    /\ pure_seen = {}
    /\ plast = NoRead
    /\ preads = 0

GuardIdle ==
    /\ GuardInit
    /\ strict_guards = TRUE
    /\ physics_overrides = << >>
    /\ ns_registered = FALSE
    /\ ns_policy = DefaultPolicy

(***************************************************************************)
(* Init: the engine after TheusEngine.__init__: flags set, the core        *)
(* hydrated from the context by compare_and_swap(0, init_data).            *)
(***************************************************************************)
InitWith(flags) ==
    /\ strict_cas \in flags
    /\ core_strict = set_strict_cas(strict_cas)
    /\ version = 1
    /\ data = deep_merge(EmptyMap, InitData)
    /\ heavy = [k \in HeavyKeys |-> 0]
    /\ history = << TouchedPaths(InitData) >>
    /\ ticket = NoTicket
    /\ conflicts = [n \in Progs \cup ReturnProgs |-> 0]
    /\ outbox = << >>
    /\ delivered = << >>
    /\ pc = [i \in Procs |-> "idle"]
    /\ prog = [i \in Procs |-> NoProg]
    /\ tx = [i \in Procs |-> NoTx]
    /\ max_retries = [i \in Procs |-> 0]
    /\ current_retries = [i \in Procs |-> 0]
    /\ attempts = [i \in Procs |-> 0]
    /\ last = NoCas
    /\ acct = [i \in Procs |-> NoAcct]
    /\ committed = { deep_merge(EmptyMap, InitData) }
    /\ GuardIdle
    /\ PureIdle

Init == InitWith(BOOLEAN) /\ AuditIdle /\ MergeIdle /\ HubIdle

(* an engine built with any configuration of the guard layer *)
InitGuard ==
    /\ GuardInit
    /\ AuditIdle
    /\ MergeIdle
    /\ HubIdle
    /\ PureIdle
    /\ strict_cas = FALSE
    /\ core_strict = set_strict_cas(strict_cas)
    /\ version = 1
    /\ data = deep_merge(EmptyMap, InitData)
    /\ heavy = [k \in HeavyKeys |-> 0]
    /\ history = << TouchedPaths(InitData) >>
    /\ ticket = NoTicket
    /\ conflicts = [n \in Progs \cup ReturnProgs |-> 0]
    /\ outbox = << >>
    /\ delivered = << >>
    /\ pc = [i \in Procs |-> "idle"]
    /\ prog = [i \in Procs |-> NoProg]
    /\ tx = [i \in Procs |-> NoTx]
    /\ max_retries = [i \in Procs |-> 0]
    /\ current_retries = [i \in Procs |-> 0]
    /\ attempts = [i \in Procs |-> 0]
    /\ last = NoCas
    /\ acct = [i \in Procs |-> NoAcct]
    /\ committed = { deep_merge(EmptyMap, InitData) }

InitAdmin ==
    /\ InitGuard
    /\ strict_guards = TRUE
    /\ ns_registered = FALSE
    /\ physics_overrides \in { << >>, [p \in {"const_list"} |-> Mutable] }

StoreBecomes(res) ==
    /\ version' = res.version
    /\ data' = res.data
    /\ heavy' = res.heavy
    /\ history' = res.history
    /\ committed' = committed \cup {res.data}

(***************************************************************************)
(* engine.compare_and_swap(expected_version, data, heavy, requester)       *)
(* called by the host.                                                     *)
(***************************************************************************)
CompareAndSwap(e, dp, hp, r) ==
    /\ version < MaxVersion
    /\ LET res == compare_and_swap(e, dp, hp, r)
       IN /\ StoreBecomes(res)
          /\ last' = CasRecord("cas", NoProc, e, dp, hp, r, res)
    /\ UNCHANGED <<auxVars, guardVars, auditVars, pureVars, strict_cas, core_strict, ctlVars, outbox, delivered,
                   execVars, acct>>

(***************************************************************************)
(* engine.execute(func, retries=r): entry, up to the call of the user      *)
(* function in the first turn of the loop: Transaction(core) is opened.    *)
(***************************************************************************)
Execute(i, p, r) ==
    /\ pc[i] = "idle"
    /\ pc' = [pc EXCEPT ![i] = "body"]
    /\ prog' = [prog EXCEPT ![i] = p]
    /\ max_retries' = [max_retries EXCEPT ![i] = r]
    /\ current_retries' = [current_retries EXCEPT ![i] = 0]
    /\ attempts' = [attempts EXCEPT ![i] = 1]
    /\ tx' = [tx EXCEPT ![i] = OpenTx]
    /\ acct' = [acct EXCEPT ![i] = NoAcct]
    /\ UNCHANGED <<auxVars, guardVars, auditVars, pureVars, strict_cas, core_strict, storeVars, ctlVars, outbox,
                   delivered, last, committed>>

(* what the flush_outbox call inside the with block of execute hands to    *)
(* the worker: the engine's queue of committed messages; the open          *)
(* transaction t keeps its own outbox until it commits                     *)
flush_outbox(t) == outbox

(***************************************************************************)
(* The user function runs to its end inside the try block of execute.      *)
(*  ok: _attempt_execute builds the pending patch, maps a returned heavy   *)
(*      handle, calls tx.update and audit.log_success; execute then calls  *)
(*      report_success and flush_outbox; the with block is about to exit.  *)
(*  exception: the except clause of execute classifies it by its text;     *)
(*      a text holding "CAS Version Mismatch" is reported to the           *)
(*      controller and may be retried (sleep, then continue); anything     *)
(*      else is re-raised and the Transaction exits with the exception.    *)
(***************************************************************************)
RunProcess(i, outcome) ==
    /\ pc[i] = "body"
    /\ outcome = "cas_text_error" => attempts[i] < MaxAttempts
    /\ LET w == guard_write(tx[i], i, prog[i])
           t1 == [w.tx EXCEPT !.outbox = Append(@, Msg(i, attempts[i]))]
       IN
       /\ data' = w.data
       /\ acct' = [acct EXCEPT ![i].threw = @ \/ (outcome # "ok"),
                               ![i].failed = IF outcome = "ok" THEN @
                                             ELSE @ \cup {attempts[i]},
                               ![i].reported = IF outcome = "ok"
                                               THEN @ \cup {attempts[i]}
                                               ELSE @]
       /\ IF outcome = "ok"
          THEN LET pending ==
                       output_mapping(build_pending_from_deltas(t1.delta),
                                      ProgOutputs(prog[i]), ProgResult(prog[i]),
                                      data)
                   t2 == [t1 EXCEPT !.pdata = pending,
                                    !.pheavy = IF prog[i] = "put_h"
                                               THEN Map1("h", i) ELSE @]
                   rs == report_success(prog[i])
               IN /\ tx' = [tx EXCEPT ![i] = t2]
                  /\ ticket' = rs.ticket
                  /\ conflicts' = rs.conflicts
                  /\ delivered' = delivered \o flush_outbox(t2)
                  /\ outbox' = << >>
                  /\ pc' = [pc EXCEPT ![i] = "exit"]
                  /\ UNCHANGED current_retries
          ELSE LET is_cas_error == (outcome = "cas_text_error")
                   d == IF is_cas_error THEN report_conflict(prog[i])
                        ELSE [should_retry |-> FALSE, ticket |-> ticket,
                              conflicts |-> conflicts]
                   fallback == /\ is_cas_error
                               /\ ~d.should_retry
                               /\ current_retries[i] < max_retries[i]
                   should_retry == d.should_retry \/ fallback
               IN /\ ticket' = d.ticket
                  /\ conflicts' = d.conflicts
                  /\ current_retries' =
                        IF fallback
                        THEN [current_retries EXCEPT ![i] = @ + 1]
                        ELSE current_retries
                  /\ IF should_retry
                     THEN /\ tx' = [tx EXCEPT ![i] = t1]
                          /\ pc' = [pc EXCEPT ![i] = "sleep"]
                     ELSE /\ tx' = [tx EXCEPT ![i] = NoTx]
                          /\ pc' = [pc EXCEPT ![i] = "raised"]
                  /\ UNCHANGED <<auxVars, outbox, delivered>>
    /\ UNCHANGED <<auxVars, guardVars, auditVars, pureVars, strict_cas, core_strict, version, heavy, history,
                   prog, max_retries, attempts, last, committed>>

(* variant: the Transaction commits against the version current at its exit *)
TxCommitCurrent(i) ==
    compare_and_swap(version, TxPatch(tx[i]), tx[i].pheavy, prog[i])

(***************************************************************************)
(* Transaction.__exit__ without exception: CAS of the transaction's patch  *)
(* against its base version.  On success its outbox joins the engine's     *)
(* queue; on failure everything is dropped and the conflict is raised.     *)
(***************************************************************************)
TxCommit(i) == compare_and_swap(tx[i].base, TxPatch(tx[i]), tx[i].pheavy, prog[i])

(* the with block exits after a successful attempt; execute returns *)
ExitCommit(i) ==
    /\ pc[i] = "exit"
    /\ version < MaxVersion
    /\ LET res == TxCommit(i)
       IN /\ StoreBecomes(res)
          /\ last' = CasRecord("tx", i, tx[i].base, TxPatch(tx[i]),
                               tx[i].pheavy, prog[i], res)
          /\ outbox' = IF res.ok THEN outbox \o tx[i].outbox ELSE outbox
          /\ acct' = IF res.ok
                     THEN [acct EXCEPT ![i].done = @ \cup {attempts[i]}]
                     ELSE acct
          /\ pc' = [pc EXCEPT ![i] = IF res.ok THEN "returned" ELSE "raised"]
    /\ tx' = [tx EXCEPT ![i] = NoTx]
    /\ UNCHANGED <<auxVars, guardVars, auditVars, pureVars, strict_cas, core_strict, ctlVars, delivered, prog,
                   max_retries, current_retries, attempts>>

(***************************************************************************)
(* After the backoff sleep: `continue` leaves the with block without an    *)
(* exception, so the Transaction of the failed attempt closes as a         *)
(* success; then the loop opens the next Transaction and runs again.  A    *)
(* conflict raised by that closing leaves execute.                         *)
(***************************************************************************)
RetryContinue(i) ==
    /\ pc[i] = "sleep"
    /\ version < MaxVersion
    /\ LET res == TxCommit(i)
       IN /\ StoreBecomes(res)
          /\ last' = CasRecord("tx", i, tx[i].base, TxPatch(tx[i]),
                               tx[i].pheavy, prog[i], res)
          /\ outbox' = IF res.ok THEN outbox \o tx[i].outbox ELSE outbox
          /\ acct' = IF res.ok
                     THEN [acct EXCEPT ![i].done = @ \cup {attempts[i]}]
                     ELSE acct
          /\ IF res.ok
             THEN /\ pc' = [pc EXCEPT ![i] = "body"]
                  /\ attempts' = [attempts EXCEPT ![i] = @ + 1]
                  /\ tx' = [tx EXCEPT ![i] =
                              [base |-> res.version, snap |-> res.data,
                               delta |-> << >>, pdata |-> EmptyMap,
                               pheavy |-> EmptyMap, outbox |-> << >>]]
             ELSE /\ pc' = [pc EXCEPT ![i] = "raised"]
                  /\ tx' = [tx EXCEPT ![i] = NoTx]
                  /\ UNCHANGED attempts
    /\ UNCHANGED <<auxVars, guardVars, auditVars, pureVars, strict_cas, core_strict, ctlVars, delivered, prog,
                   max_retries, current_retries>>

(* engine.process_outbox(): dispatch every pending message to the worker *)
ProcessOutbox ==
    /\ outbox # << >>
    /\ delivered' = delivered \o outbox
    /\ outbox' = << >>
    /\ UNCHANGED <<auxVars, guardVars, auditVars, pureVars, strict_cas, core_strict, storeVars, ctlVars, execVars,
                   last, acct, committed>>

(* engine.report_conflict(name) / engine.report_success(name) by the host *)
ReportConflict(n) ==
    /\ LET d == report_conflict(n)
       IN ticket' = d.ticket /\ conflicts' = d.conflicts
    /\ <<ticket, conflicts>>' # <<ticket, conflicts>>
    /\ UNCHANGED <<auxVars, guardVars, auditVars, pureVars, strict_cas, core_strict, storeVars, outbox, delivered,
                   execVars, last, acct, committed>>

ReportSuccess(n) ==
    /\ LET rs == report_success(n)
       IN ticket' = rs.ticket /\ conflicts' = rs.conflicts
    /\ <<ticket, conflicts>>' # <<ticket, conflicts>>
    /\ UNCHANGED <<auxVars, guardVars, auditVars, pureVars, strict_cas, core_strict, storeVars, outbox, delivered,
                   execVars, last, acct, committed>>

(* audit.log_fail(key) called by the host *)
LogFail(key) ==
    /\ fails_since[key] < MaxFails
    /\ LET lf == log_fail(audit_count, key)
       IN /\ audit_count' = lf.count
          /\ fails_since' = [fails_since EXCEPT ![key] = @ + 1]
          /\ alast' = [NoAudit EXCEPT !.op = "log_fail", !.key = key,
                          !.nth = fails_since[key] + 1, !.err = lf.err,
                          !.before = audit_count,
                          !.pre_version = version, !.pre_data = data]
    /\ UNCHANGED <<auxVars, engineVars, guardVars, pureVars, audit_recipe>>

(* audit.log_success(key) called by the host *)
LogSuccess(key) ==
    /\ audit_count' = log_success(audit_count, key)
    /\ fails_since' = IF audit_recipe.reset_on_success
                      THEN [fails_since EXCEPT ![key] = 0] ELSE fails_since
    /\ alast' = [NoAudit EXCEPT !.op = "log_success", !.key = key,
                    !.before = audit_count,
                    !.pre_version = version, !.pre_data = data]
    /\ <<audit_count, alast>>' # <<audit_count, alast>>
    /\ UNCHANGED <<auxVars, engineVars, guardVars, pureVars, audit_recipe>>

(***************************************************************************)
(* engine.execute(p_signup, age=..): the attempt, and the exit of the      *)
(* Transaction: commit of the score after a successful attempt, nothing    *)
(* after an exception.  No audit error carries the text of a conflict, so  *)
(* execute re-raises it.                                                   *)
(***************************************************************************)
AuditExecute(age_bad, score_bad, user_raises, via) ==
    /\ version < MaxVersion
    /\ \A k \in AuditKeys : fails_since[k] < MaxFails
    /\ LET res == attempt_execute(audit_count, age_bad, score_bad, user_raises,
                                  via)
           ok == res.err = "none"
           score == << <<"d", "x">> >>
           pending_data ==
               IF via = "guard" THEN Map1("d", M(Map1("x", S(7))))
               ELSE output_mapping(EmptyMap, score, S(7), data)
           cas == compare_and_swap(version, pending_data, EmptyMap, KeyName)
       IN /\ audit_count' = res.count
          /\ fails_since' =
                [k \in AuditKeys |->
                    IF k = KeyName /\ ok /\ audit_recipe.reset_on_success THEN 0
                    ELSE fails_since[k] + res.calls[k]]
          /\ IF ok THEN StoreBecomes(cas)
                   ELSE UNCHANGED <<auxVars, storeVars, committed>>
          /\ alast' = [op |-> "execute",
                       key |-> IF age_bad THEN KeyIn ELSE KeyName,
                       nth |-> IF age_bad THEN fails_since[KeyIn] + 1 ELSE 0,
                       err |-> res.err, ran |-> res.ran, committed |-> ok,
                       before |-> res.before,
                       pre_version |-> version, pre_data |-> data,
                       via |-> via, checked |-> res.checked, viol |-> res.viol]
    /\ UNCHANGED <<auxVars, guardVars, pureVars, strict_cas, core_strict, ctlVars, outbox,
                   delivered, execVars, last, acct, audit_recipe>>

(***************************************************************************)
(* A PURE process runs: safe_wrapper builds its view from contract.inputs  *)
(* and calls the function with it; the function reads through the view.    *)
(***************************************************************************)
PureBegin(inputs, outputs) ==
    /\ pure_view = NoView
    /\ pure_inputs' = inputs
    /\ pure_outputs' = outputs
    /\ pure_view' = RestrictedStateProxy(inputs)
    /\ pure_seen' = {}
    /\ plast' = NoRead
    /\ UNCHANGED <<auxVars, engineVars, guardVars, auditVars, preads>>

PureRead(route, zone, key) ==
    /\ pure_view # NoView
    /\ preads < MaxReads
    /\ route = "data" => zone \in DataZones
    /\ route # "data" => zone = ZoneOf(route)
    /\ LET res == view_read(pure_view, route, zone, key)
       IN /\ plast' = [route |-> route, zone |-> zone, key |-> key, res |-> res]
          /\ pure_seen' = IF res = "value" THEN pure_seen \cup {<<zone, key>>}
                          ELSE pure_seen
    /\ preads' = preads + 1
    /\ UNCHANGED <<auxVars, engineVars, guardVars, auditVars, pure_inputs, pure_outputs,
                   pure_view>>

(* the function tries to set, delete or mutate in place through the view: *)
(* the attempt raises and nothing is written                               *)
PureWrite(route, zone, key, kind) ==
    /\ pure_view # NoView
    /\ preads < MaxReads
    /\ route = "data" => zone \in DataZones
    /\ route # "data" => zone = ZoneOf(route)
    /\ plast' = [route |-> route, zone |-> zone, key |-> key,
                 res |-> view_write(pure_view, route, zone, key, kind)]
    /\ preads' = preads + 1
    /\ UNCHANGED <<auxVars, engineVars, guardVars, auditVars, pure_inputs, pure_outputs,
                   pure_view, pure_seen>>

(***************************************************************************)
(* The function returns result: the delta log is empty, so the PURE check  *)
(* of _validate_contract_compliance passes; the returned value is mapped   *)
(* to the contract's output, tx.update takes the pending data and the      *)
(* Transaction commits at its exit.                                        *)
(***************************************************************************)
PureEnd(result) ==
    /\ pure_view # NoView
    /\ version < MaxPureRuns
    /\ LET pending_data == output_mapping(EmptyMap, pure_outputs, result, data)
           res == compare_and_swap(version, pending_data, EmptyMap, "pure")
       IN /\ StoreBecomes(res)
          /\ last' = CasRecord("tx", NoProc, version, pending_data, EmptyMap,
                               "pure", res)
    /\ pure_view' = NoView
    /\ UNCHANGED <<auxVars, guardVars, auditVars, strict_cas, core_strict, ctlVars, outbox,
                   delivered, execVars, acct, pure_inputs, pure_outputs,
                   pure_seen, plast, preads>>

(* the function raises: the Transaction exits with the exception *)
PureAbort ==
    /\ pure_view # NoView
    /\ pure_view' = NoView
    /\ UNCHANGED <<auxVars, engineVars, guardVars, auditVars, pure_inputs, pure_outputs,
                   pure_seen, plast, preads>>

(***************************************************************************)
(* The wall clock of the controller (native core): a ticket that has been  *)
(* held for its timeout is force-released; the counters stay.              *)
(***************************************************************************)
(* variant: the timeout never releases the ticket *)
ticket_timeout_never(t) == t

ticket_timeout(t) == NoTicket

TicketTimeout ==
    /\ ticket # NoTicket
    /\ ticket' = ticket_timeout(ticket)
    /\ UNCHANGED <<auxVars, guardVars, auditVars, pureVars, strict_cas, core_strict, storeVars, conflicts,
                   outbox, delivered, execVars, last, acct, committed>>

StoreNext ==
    \/ \E e \in 0..MaxVersion, c \in CasCalls, r \in Requesters :
          e <= version /\ CompareAndSwap(e, c.dp, c.hp, r)
    \/ \E n \in DirectNames : ReportConflict(n)
    \/ \E n \in DirectNames : ReportSuccess(n)

Next ==
    \/ \E i \in Procs, p \in Progs, r \in Retries : Execute(i, p, r)
    \/ \E i \in Procs, o \in Outcomes : RunProcess(i, o)
    \/ \E i \in Procs : ExitCommit(i)
    \/ \E i \in Procs : RetryContinue(i)
    \/ ProcessOutbox

(* concurrent executions on one engine *)
Spec == Init /\ [][Next]_vars

ReturnNext ==
    \/ \E i \in Procs, p \in ReturnProgs : Execute(i, p, 0)
    \/ \E i \in Procs, o \in {"ok", "user_error"} : RunProcess(i, o)
    \/ \E i \in Procs : ExitCommit(i)
    \/ ProcessOutbox

(* concurrent executions of a process that returns its output and of one   *)
(* that writes a sibling field                                             *)
SpecReturn == Init /\ [][ReturnNext]_vars

(* the host driving the store directly *)
SpecStore == Init /\ [][StoreNext]_vars

AuditNext ==
    \/ \E k \in AuditKeys : LogFail(k)
    \/ \E k \in AuditKeys : LogSuccess(k)
    \/ \E a \in BOOLEAN, b \in BOOLEAN, c \in BOOLEAN, via \in Vias :
          AuditExecute(a, b, c, via)

(* an engine with an audit recipe running p_signup, and the host calling   *)
(* the audit system directly                                               *)
InitAudit ==
    InitWith({FALSE}) /\ AuditInit /\ audit_recipe \in Recipes /\ MergeIdle /\ HubIdle

SpecAudit == InitAudit /\ [][AuditNext]_vars

(* the patch is merged into the state once more *)
MergeApply ==
    /\ m_step < MaxMerges
    /\ m_out' = deep_merge(m_out, m_patch)
    /\ m_step' = m_step + 1
    /\ UNCHANGED <<hubVars, engineVars, guardVars, auditVars, pureVars, m_base, m_patch>>

MergeNext == MergeApply

InitMerge == InitWith({FALSE}) /\ AuditIdle /\ MergeInit /\ HubIdle

SpecMerge == InitMerge /\ [][MergeNext]_vars

(* hub.subscribe() hands out receiver r *)
HubSubscribe(r) ==
    /\ hub_start[r] = NotSubscribed
    /\ hub_start' = [hub_start EXCEPT ![r] = Len(hub_published)]
    /\ hub_next' = [hub_next EXCEPT ![r] = subscribe(hub_published) + 1]
    /\ UNCHANGED <<engineVars, guardVars, auditVars, pureVars, mergeVars,
                   hub_published, hub_got, hub_over, hub_err>>

(* hub.publish(msg): the message is the next in publish order *)
HubPublish ==
    /\ Len(hub_published) < MaxPublish
    /\ hub_published' = Append(hub_published, Len(hub_published) + 1)
    /\ hub_over' = [r \in Receivers |->
                       \/ hub_over[r]
                       \/ /\ hub_start[r] # NotSubscribed
                          /\ unconsumed(hub_published', hub_next[r]) > HubCapacity]
    /\ UNCHANGED <<engineVars, guardVars, auditVars, pureVars, mergeVars,
                   hub_start, hub_next, hub_got, hub_err>>

(* rx.recv() of receiver r; with nothing pending the call blocks *)
HubRecv(r) ==
    /\ hub_start[r] # NotSubscribed
    /\ unconsumed(hub_published, hub_next[r]) > 0
    /\ LET res == recv(hub_published, hub_next[r])
       IN /\ hub_next' = [hub_next EXCEPT ![r] = res.next]
          /\ hub_err' = [hub_err EXCEPT ![r] = res.err]
          /\ hub_got' = [hub_got EXCEPT ![r] =
                            IF res.err THEN @ ELSE Append(@, res.msg)]
    /\ UNCHANGED <<engineVars, guardVars, auditVars, pureVars, mergeVars,
                   hub_published, hub_start, hub_over>>

HubNext ==
    \/ \E r \in Receivers : HubSubscribe(r)
    \/ HubPublish
    \/ \E r \in Receivers : HubRecv(r)

InitHub == InitWith({FALSE}) /\ AuditIdle /\ MergeIdle /\ HubIdle

SpecHub == InitHub /\ [][HubNext]_vars

PureNext ==
    \/ \E inputs \in InputLists, outputs \in OutputLists :
          PureBegin(inputs, outputs)
    \/ \E route \in PureRoutes, zone \in PureZones, key \in PureKeys :
          PureRead(route, zone, key)
    \/ \E route \in PureRoutes, zone \in PureZones, key \in PureKeys,
          kind \in PureWriteKinds : PureWrite(route, zone, key, kind)
    \/ \E result \in {None, S(7)} : PureEnd(result)
    \/ PureAbort

(* PURE processes running on one engine *)
SpecPure == Init /\ [][PureNext]_vars

LiveNext ==
    \/ \E e \in 0..MaxVersion, c \in CasCalls, r \in Requesters :
          e <= version /\ CompareAndSwap(e, c.dp, c.hp, r)
    \/ \E n \in DirectNames : ReportConflict(n)
    \/ \E n \in DirectNames : ReportSuccess(n)
    \/ TicketTimeout

(* the host driving the store while the controller's clock runs: a ticket  *)
(* that stays held sees its timeout expire                                  *)
SpecLive == Init /\ [][LiveNext]_vars /\ WF_vars(TicketTimeout)

GuardNext ==
    \/ \E c \in Contracts : GuardBegin(c)
    \/ \E kind \in Kinds, f \in Fields, v \in Elems, a \in BOOLEAN :
          GuardOp(kind, f, v, a)
    \/ GuardEnd
    \/ GuardAbort

AdminNext ==
    \/ \E c \in Contracts : GuardBegin(c)
    \/ AdminEnter
    \/ AdminExit
    \/ KeepChild
    \/ \E kind \in Kinds, f \in Fields, v \in Elems, a \in BOOLEAN :
          GuardOp(kind, f, v, a)
    \/ GuardEnd
    \/ GuardAbort

(* processes that open no AdminTransaction, on an engine of any guard      *)
(* configuration                                                           *)
SpecGuard == InitGuard /\ [][GuardNext]_vars

(* processes that may open AdminTransaction scopes, on an engine with      *)
(* strict guards and no registered namespace, with or without a Mutable    *)
(* annotation on the constant list                                         *)
SpecAdmin == InitAdmin /\ [][AdminNext]_vars


(***************************************************************************)
(* Properties.                                                             *)
(***************************************************************************)
Range(q) == { q[k] : k \in DOMAIN q }
Finished(i) == pc[i] \in {"returned", "raised"}
Commits(i) == Cardinality(acct[i].done)
Relayed == Range(outbox) \cup Range(delivered)

(* C1: every execute call that returns has committed exactly once, and    *)
(* the commit of a transaction raises the version by exactly one.         *)
C1_OneCommitPerSuccess ==
    /\ \A i \in Procs : pc[i] = "returned" => Commits(i) = 1
    /\ (last.kind = "tx" /\ last.ok) => version = last.pre_version + 1

(* C2: across all attempts of an execute call that returns after a retry, *)
(* the version is incremented exactly once: the attempts that failed      *)
(* commit nothing.                                                        *)
C2_FailedAttemptsCommitNothing ==
    \A i \in Procs :
        (pc[i] = "returned" /\ attempts[i] > 1) => acct[i].done = {attempts[i]}

(* C3: an execute call that ends by raising has committed nothing (the    *)
(* version, the data and the heavy map are not changed by it) and none of *)
(* its messages is deliverable to the worker.                             *)
C3_FailedCallLeavesNoTrace ==
    \A i \in Procs :
        pc[i] = "raised" =>
            /\ acct[i].done = {}
            /\ \A m \in Relayed : m.p # i


(***************************************************************************)
(* Smart and strict CAS, stated on the most recent compare_and_swap.       *)
(***************************************************************************)
IsStale == last.kind # "none" /\ last.expected # last.pre_version
SharesTopLevelKey == TopLevelKeys(last.stale) \cap DOMAIN last.dpatch # {}
SharesPath ==
    \E p \in TouchedPaths(last.dpatch), q \in last.stale : PathsCollide(p, q)
StoreAsBefore == version = last.pre_version /\ data = last.pre_data

(* C4: under Smart CAS, a stale compare_and_swap whose patch has no       *)
(* top-level key in common with the commits made since expected_version   *)
(* (and that no priority ticket of somebody else blocks) succeeds, mints  *)
(* a new version and leaves data = deep_merge(current data, patch).       *)
C4_SmartCasMergesDisjoint ==
    (IsStale /\ ~last.strict /\ ~last.busy /\ ~SharesTopLevelKey) =>
        /\ last.ok
        /\ version = last.pre_version + 1
        /\ data = deep_merge(last.pre_data, last.dpatch)

C4_Witness ==
    /\ last.kind = "cas" /\ IsStale /\ ~last.strict /\ ~last.busy
    /\ ~SharesTopLevelKey /\ last.ok
    /\ last.dpatch # EmptyMap /\ data # last.pre_data

(* C5 as stated: under Smart CAS, a stale compare_and_swap whose patch    *)
(* shares a top-level key with a commit made since expected_version       *)
(* fails and leaves data and version unchanged.                           *)
C5_TopLevelOverlapFails ==
    (IsStale /\ ~last.strict /\ SharesTopLevelKey) =>
        (~last.ok /\ StoreAsBefore)

(* C5 amended: under Smart CAS, a stale compare_and_swap whose patch      *)
(* writes a path (a top-level key, or a field of a top-level mapping)     *)
(* that a commit made since expected_version also touched fails and       *)
(* leaves data and version unchanged.                                     *)
C5_PathOverlapFails ==
    (IsStale /\ ~last.strict /\ SharesPath) =>
        (~last.ok /\ StoreAsBefore /\ last.err \in {"CAS Version Mismatch", "System Busy"})

C5_Witness ==
    /\ last.kind = "cas" /\ IsStale /\ ~last.strict /\ ~last.busy
    /\ SharesPath /\ ~last.ok /\ last.err = "CAS Version Mismatch"

(* C6: with strict_cas enabled, compare_and_swap succeeds only when       *)
(* expected_version equals the current version; any mismatch fails and    *)
(* leaves the store unchanged, also when the patch touches no key that an *)
(* interleaving commit changed.                                           *)
C6_StrictCasRejectsMismatch ==
    (last.kind # "none" /\ last.strict) =>
        /\ last.ok => last.expected = last.pre_version
        /\ IsStale => (~last.ok /\ StoreAsBefore)

C6_Witness ==
    /\ last.kind = "cas" /\ last.strict /\ IsStale /\ ~last.busy
    /\ ~SharesTopLevelKey /\ last.dpatch # EmptyMap /\ ~last.ok

(* C7: commits are totally ordered by version: every change of the store  *)
(* is one successful compare_and_swap that mints the next version, the    *)
(* version never decreases, and no version is minted twice.               *)
C7_VersionsTotallyOrdered ==
    [][ /\ version' >= version
        /\ (<<data, heavy, history>>' # <<data, heavy, history>>)
              => (version' = version + 1 /\ last'.ok)
        /\ (last'.ok /\ last' # last) => version' = last'.pre_version + 1
        /\ Len(history') = version' ]_vars

C7_Witness ==
    /\ version >= 3
    /\ last.kind = "tx" /\ last.ok
    /\ \E i, j \in Procs : i # j /\ acct[i].done # {} /\ acct[j].done # {}


(* C8: when every execution runs the appending process, none of the user  *)
(* functions fails, and all calls are over, the list holds each worker's  *)
(* element exactly once, no other key has changed and the version has     *)
(* advanced by the number of executions.                                  *)
C8_ConcurrentAppendsAllLand ==
    (\A i \in Procs : prog[i] = "append" /\ Finished(i) /\ ~acct[i].threw) =>
        /\ Len(data["log"].l) = NumProcs
        /\ Range(data["log"].l) = Procs
        /\ data["a"] = InitData["a"] /\ data["d"] = InitData["d"]
        /\ version = 1 + NumProcs

(* C9: while a transaction holds an uncommitted write of a path, the      *)
(* store and every other transaction's snapshot of the same base version  *)
(* show the value the path had before the write; the store and the        *)
(* snapshots only ever hold committed trees.                              *)
Active(i) == pc[i] \in {"body", "exit", "sleep"}
HasWrite(i) == pc[i] \in {"exit", "sleep"} /\ tx[i].delta # << >>
C9_ShadowIsolation ==
    /\ data \in committed
    /\ \A j \in Procs : Active(j) => tx[j].snap \in committed
    /\ \A i \in Procs : HasWrite(i) =>
          LET w == tx[i].delta[1]
          IN /\ version = tx[i].base => GetPath(data, w.path) = w.old
             /\ \A j \in Procs \ {i} :
                   (Active(j) /\ tx[j].base = tx[i].base)
                      => GetPath(tx[j].snap, w.path) = w.old

C9_Witness ==
    \E i, j \in Procs :
        /\ i # j /\ HasWrite(i) /\ pc[j] = "body"
        /\ tx[j].base = tx[i].base /\ version = tx[i].base
        /\ tx[i].delta[1].new # tx[i].delta[1].old
        /\ GetPath(data, tx[i].delta[1].path) = tx[i].delta[1].old

(* C10: a message handed to the relay (queued for it or received by the   *)
(* worker) belongs to a transaction whose commit has succeeded; a message *)
(* enqueued in an attempt that ended in an exception is handed over, if   *)
(* at all, only once the call has committed and returned.                 *)
C10_OutboxOnlyAfterCommit ==
    \A m \in Relayed :
        /\ m.att \in acct[m.p].done
        /\ m.att \in acct[m.p].failed => pc[m.p] = "returned"


(* C11: when an execute call has returned after one or more retries, the  *)
(* relay (queue and worker together) holds the message of that call       *)
(* exactly once: the run that failed has not left a second copy and the   *)
(* message of the run that succeeded is not lost.                         *)
RelayedOf(i) ==
    { k \in DOMAIN outbox : outbox[k].p = i }
        \cup { Len(outbox) + k : k \in { n \in DOMAIN delivered : delivered[n].p = i } }
C11_RetriedMessageOnce ==
    \A i \in Procs :
        (pc[i] = "returned" /\ attempts[i] > 1) => Cardinality(RelayedOf(i)) = 1

(***************************************************************************)
(* Context guard claims                                                    *)
(***************************************************************************)
ConstFields == { f \in Fields : IsConst(f) }
Annotated(f) == f \in DOMAIN physics_overrides

ContainerKinds == {"setitem_idx", "append", "pop", "clear"}

C14_PrivateReadHidden ==
    (glast.kind \in ReadKinds /\ IsInternal(glast.f) /\ ~glast.is_admin)
        => glast.res = "hidden"

C18_ElevationScoped ==
    gpc = "run" =>
        /\ local_is_admin <=> Elevated
        /\ kept_admin => Elevated

Uncovered == { path \in delta_log : ~Covered(path, contract.outputs) }

(* C19 as stated: every path written in a committed transaction is covered *)
(* by an output pattern of the executing process.                          *)
C19_CommittedWritesCovered ==
    (glast.kind = "commit" /\ glast.res = "ok") => Uncovered = {}

(* C19: with strict guards enabled, every path written in a committed      *)
(* transaction is covered by an output pattern of the executing process;   *)
(* an execution that wrote an uncovered path ends with a contract          *)
(* violation and leaves the committed context as it was.                   *)
C19_StrictCommittedWritesCovered ==
    /\ [](strict_guards =>
            ((glast.kind = "commit" /\ glast.res = "ok") => Uncovered = {}))
    /\ [][ (strict_guards /\ gpc = "run" /\ glast'.kind = "commit"
            /\ Uncovered # {})
              => (glast'.res = "ContractViolationError" /\ gstore' = gstore)
          ]_vars

(* a process appended to a log it declared as input only; the proxy took   *)
(* the append and the engine refused the commit                            *)
C19_Witness ==
    /\ strict_guards
    /\ glast.kind = "commit"
    /\ glast.res = "ContractViolationError"
    /\ "log_ev" \in Uncovered
    /\ shadow["log_ev"] # gstore["log_ev"]

(* the capability mask of the policy registered for the namespace; a       *)
(* namespace that is not registered restricts nothing                      *)
PolicyMask == IF ns_registered THEN to_caps(ns_policy) ELSE CAP_ALL

(* C20: the guard never permits a write-type operation on a path when the  *)
(* bit of the operation (UPDATE, APPEND or DELETE) is absent from the      *)
(* effective capability mask of the path, the mask being what the zone or  *)
(* the physics override grants and the namespace policy allows.            *)
C20_WriteNeedsCapability ==
    (glast.kind \in WriteKinds /\ glast.res = "ok")
        => /\ HasBit(EffectiveCaps(glast.f, Elevated, physics_overrides),
                     OpCap(glast.kind))
           /\ HasBit(PolicyMask, OpCap(glast.kind))

(***************************************************************************)
(* Retry loop and controller claims                                        *)
(***************************************************************************)
(* C21: execute re-runs the user function only after a CAS version         *)
(* conflict or SystemBusy of the store; once the user function has raised  *)
(* an exception of its own, whatever its text, the call has made exactly   *)
(* one attempt and has raised to the caller.                               *)
C21_OtherExceptionsNotRetried ==
    \A i \in Procs :
        acct[i].failed # {} => (attempts[i] = 1 /\ pc[i] = "raised")

(* C22: a conflict of the commit CAS at the exit of the Transaction        *)
(* (version mismatch or SystemBusy) reaches the caller of execute only     *)
(* when the retry budget of the call is used up; while retries remain the  *)
(* call goes on to another attempt.                                        *)
C22_CommitConflictRetried ==
    [][\A i \in Procs :
          (pc[i] = "exit" /\ pc'[i] = "raised")
             => current_retries[i] >= max_retries[i]]_vars

(* C23: an execute call with retry budget r runs the user function at most *)
(* r + 1 times: exactly once for the default budget 0.                     *)
C23_AttemptsWithinBudget ==
    \A i \in Procs : pc[i] # "idle" => attempts[i] <= max_retries[i] + 1

(* every compare_and_swap the host can make in the current state *)
HostCas(e, c, r) == compare_and_swap(e, c.dp, c.hp, r)

(* C24: while the priority ticket is held by a name, every                 *)
(* compare_and_swap whose requester is absent or another name fails with   *)
(* System Busy and leaves version, data, heavy and history as they are,    *)
(* and a compare_and_swap by the holder at the current version succeeds.   *)
C24_TicketExcludesOthers ==
    /\ ticket # NoTicket =>
          \A e \in 0..version, c \in CasCalls, r \in Requesters :
             LET res == HostCas(e, c, r)
             IN /\ r # ticket =>
                     /\ ~res.ok
                     /\ res.err = "System Busy"
                     /\ <<res.version, res.data, res.heavy, res.history>>
                           = <<version, data, heavy, history>>
                /\ (r = ticket /\ e = version) =>
                     /\ res.ok
                     /\ res.version = version + 1
    /\ (last.kind = "cas" /\ last.busy) =>
          /\ ~last.ok
          /\ last.err = "System Busy"
          /\ version = last.pre_version
          /\ data = last.pre_data
    /\ (last.kind = "cas" /\ last.holder /\ last.expected = last.pre_version) =>
          /\ last.ok
          /\ version = last.pre_version + 1

(* the holder of the ticket has committed at the current version while     *)
(* every call of another requester would be rejected                       *)
C24_Witness ==
    /\ ticket = "append"
    /\ last.kind = "cas"
    /\ last.holder
    /\ last.ok
    /\ ~HostCas(version, [dp |-> Map1("a", S(7)), hp |-> EmptyMap], "anon").ok

(* C25: a name holds the priority ticket only after at least five          *)
(* consecutive conflicts of that name; below five, report_conflict counts  *)
(* the conflict, grants no ticket and answers with a retry decision.       *)
C25_TicketAfterFiveConflicts ==
    \A n \in DirectNames :
        /\ ticket = n => conflicts[n] >= ConflictThreshold
        /\ conflicts[n] < ConflictThreshold =>
              LET d == report_conflict(n)
              IN /\ d.ticket = ticket
                 /\ d.should_retry
                 /\ d.conflicts[n] = conflicts[n] + 1

(* the ticket has been granted to the name that kept losing *)
C25_Witness ==
    /\ ticket = "append"
    /\ conflicts["append"] = ConflictThreshold

(* C26: report_success(name) sets the conflict counter of name to zero     *)
(* and releases the ticket name holds; after it no compare_and_swap of     *)
(* any requester is rejected with System Busy.                             *)
C26_SuccessReleasesTicket ==
    [][\A n \in DirectNames :
          (ticket = n /\ conflicts[n] > 0 /\ conflicts'[n] = 0) =>
             /\ ticket' = NoTicket
             /\ \A e \in 0..version, c \in CasCalls, r \in Requesters :
                   (HostCas(e, c, r).err # "System Busy")']_vars

(* the ticket was held, a rejected call of another requester is on record, *)
(* and the ticket is free again with the counter at zero                   *)
C26_Witness ==
    /\ ticket = NoTicket
    /\ conflicts["append"] = 0
    /\ last.kind = "cas"
    /\ last.busy

C28_BlockAfterThreshold ==
    audit_recipe.level = "Block" =>
        LET m == audit_recipe.threshold_max
        IN /\ alast.op = "log_fail" =>
                 /\ alast.nth <= m => alast.err = "none"
                 /\ alast.nth = m + 1 => alast.err = "AuditBlock"
           /\ (alast.op = "execute" /\ alast.key = KeyIn) =>
                 /\ alast.nth <= m => alast.ran
                 /\ alast.nth = m + 1 =>
                       /\ alast.err = "AuditBlock"
                       /\ ~alast.ran
                       /\ ~alast.committed
                       /\ version = alast.pre_version
                       /\ data = alast.pre_data

(* an execution has been blocked at the input gate by the (m+1)-th         *)
(* violation, after earlier executions had gone through and committed      *)
C28_Witness ==
    /\ audit_recipe.level = "Block"
    /\ alast.op = "execute"
    /\ alast.key = KeyIn
    /\ alast.nth = audit_recipe.threshold_max + 1
    /\ alast.err = "AuditBlock"
    /\ version > 1

(* C29: with reset_on_success, log_success(key), called by the host or by  *)
(* a successful attempt under the function's name, leaves the counter of   *)
(* that key at 0 and the counter of every other key as it was.             *)
C29_SuccessResetsOneKey ==
    (/\ audit_recipe.reset_on_success
     /\ \/ alast.op = "log_success"
        \/ alast.op = "execute" /\ alast.err = "none") =>
        LET key == IF alast.op = "log_success" THEN alast.key ELSE KeyName
        IN /\ audit_count[key] = 0
           /\ \A k \in AuditKeys \ {key} : audit_count[k] = alast.before[k]

(* a successful execution has cleared the counter of the function's name   *)
(* while the counter of its input rule stands                              *)
C29_Witness ==
    /\ audit_recipe.reset_on_success
    /\ alast.op = "execute"
    /\ alast.err = "none"
    /\ alast.before[KeyName] > 0
    /\ audit_count[KeyName] = 0
    /\ audit_count[KeyIn] > 0

(***************************************************************************)
(* PURE view claims                                                        *)
(***************************************************************************)
(* a path matches the inputs: some pattern names its zone alone, or its    *)
(* zone and its key                                                        *)
MatchesInputs(zone, key, inputs) ==
    \E n \in DOMAIN inputs :
        /\ ZoneOf(inputs[n][1]) = zone
        /\ Len(inputs[n]) = 1 \/ inputs[n][2] = key

(* C30: every path a PURE process has read a value of, by whatever route   *)
(* of its view, matches the inputs of its contract.                        *)
C30_PureSeesOnlyInputs ==
    \A p \in pure_seen : MatchesInputs(p[1], p[2], pure_inputs)

(* C31: executing a PURE process never changes the committed data: every   *)
(* set, delete or in-place mutation it attempts through its view raises,   *)
(* and no step of its execution changes the data of the store.             *)
C31_PureChangesNothing ==
    [][pure_view # NoView =>
          /\ data' = data
          /\ plast'.res \in {"none", "value", "ContractViolationError", "TypeError"}]_vars

(* C32: deep merge is idempotent: merging the same patch into a state a    *)
(* second time yields what merging it once yields,                         *)
(* deep_merge(deep_merge(base, patch), patch) = deep_merge(base, patch).   *)
C32_DeepMergeIdempotent ==
    m_step >= 1 => m_out = deep_merge(m_base, m_patch)

(* the patch has been merged twice into a state whose mapping under "d"    *)
(* it changes in one field and leaves alone in the other                    *)
C32_Witness ==
    /\ m_step = 2
    /\ m_base = [k \in {"a", "d"} |->
                    IF k = "a" THEN L(<<1>>) ELSE M(Map2("x", S(0), "y", S(0)))]
    /\ m_patch = [k \in {"a", "d"} |->
                    IF k = "a" THEN L(<<1>>) ELSE M(Map1("y", S(1)))]
    /\ m_out["d"] = M(Map2("x", S(0), "y", S(1)))

(* the first Len(p) elements of q are exactly p *)
IsPrefix(p, q) == Len(p) <= Len(q) /\ p = SubSeq(q, 1, Len(p))

(* what has been published since receiver r subscribed *)
PublishedSince(r) ==
    SubSeq(hub_published, hub_start[r] + 1, Len(hub_published))

(* C33: a subscriber that has never had more than the channel's capacity   *)
(* of unconsumed messages has received the messages published after its    *)
(* subscription, each once and in publish order, with no message from      *)
(* before its subscription and none skipped; once it has consumed all that *)
(* is pending it has received exactly those messages.                      *)
C33_DeliveredSinceSubscription ==
    \A r \in Receivers :
        (hub_start[r] # NotSubscribed /\ ~hub_over[r]) =>
            /\ IsPrefix(hub_got[r], PublishedSince(r))
            /\ ~hub_err[r]
            /\ unconsumed(hub_published, hub_next[r]) = 0 =>
                   hub_got[r] = PublishedSince(r)

(* a receiver that subscribed after two messages had been published, and   *)
(* never fell behind, has received the three published since               *)
C33_Witness ==
    \E r \in Receivers :
        /\ hub_start[r] = 2
        /\ ~hub_over[r]
        /\ Len(hub_published) = 5
        /\ hub_got[r] = <<3, 4, 5>>

(* C34: audit.log_success, controller.report_success and the outbox flush  *)
(* happen only for an attempt whose commit succeeds: when an execute call  *)
(* has ended, every attempt of it for which they were called has           *)
(* committed.                                                              *)
C34_ReportsOnlyAfterCommit ==
    \A i \in Procs : Finished(i) => acct[i].reported \subseteq acct[i].done

(* C35: every value an execution commits for a path that has an output     *)
(* rule has been checked by validate_outputs beforehand, whether it was    *)
(* written through the guard or supplied through the return value.         *)
C35_CommittedOutputsChecked ==
    (alast.op = "execute" /\ alast.committed) => alast.checked

(* C36: one execution whose pending output violates an output rule         *)
(* increments the audit counter of that rule by exactly 1.                 *)
C36_OneViolationCountsOnce ==
    [][(alast'.op = "execute" /\ alast'.viol) =>
          audit_count'[KeyOut] = audit_count[KeyOut] + 1]_vars

(* C37: every guard obtained by nested access from a parent guard, inside  *)
(* an AdminTransaction scope or not, has the parent's prefix extended by   *)
(* the accessed key as its path_prefix, so that the checks made on it use  *)
(* the full path from the root: the guard of the namespace has the prefix  *)
(* <<domain>> and the guard of a list in it <<domain, field>>.             *)
C37_NestedGuardFullPath ==
    glast.kind \in Kinds =>
        glast.prefix = IF glast.kind \in {"setitem_idx", "append", "pop", "clear"}
                       THEN <<"domain", glast.f>>
                       ELSE <<"domain">>

(* what the zone physics check of the Python guard answered for the last   *)
(* guard operation                                                         *)
LastZoneCheck ==
    check_zone_physics(PySegments(glast.kind, glast.f, glast.is_admin),
                       PyHasOverride(glast.f, glast.is_admin, physics_overrides),
                       OpMode(glast.kind), glast.is_admin)

(* C38 as stated: for a path whose top-level segment is not a registered   *)
(* namespace the guard applies neither the zone physics check nor the      *)
(* contract check: no such access is denied or hidden by zone physics.     *)
C38_UnregisteredPassesThrough ==
    (~ns_registered /\ glast.kind \in Kinds) => LastZoneCheck = "ok"

(* C38: for a path whose top-level segment is not a registered namespace   *)
(* the guard skips the contract check only: a read of a path no pattern of *)
(* the contract covers is not refused by the whitelist (and succeeds when  *)
(* the native guard does not enforce the contract), while zone physics     *)
(* still applies: a write, append or delete on a const_ path without       *)
(* override is denied and a non-admin attribute read of an internal_ path  *)
(* is hidden.                                                              *)
C38_UnregisteredSkipsContractOnly ==
    (~ns_registered /\ glast.kind \in Kinds /\ ~glast.is_admin) =>
        /\ (glast.kind \in ReadKinds /\ ~IsInternal(glast.f) /\ ~strict_guards)
              => glast.res = "ok"
        /\ (glast.kind \in WriteKinds /\ IsConst(glast.f) /\ ~Annotated(glast.f))
              => glast.res = "PermissionError"
        /\ (glast.kind = "getattr" /\ IsInternal(glast.f))
              => glast.res = "hidden"

(* on an engine with no registered namespace and lenient guards, a process *)
(* has read a path that no pattern of its contract covers                  *)
C38_Witness ==
    /\ ~ns_registered
    /\ ~strict_guards
    /\ glast.kind = "getattr"
    /\ glast.f = "const_list"
    /\ ~glast.is_admin
    /\ ~Covered("const_list", allowed.inputs \cup allowed.outputs)
    /\ glast.res = "ok"

(* C39: under Smart CAS, a stale-version patch that shares a top-level key *)
(* with an interleaving commit but changes a different nested field under  *)
(* that key succeeds, and afterwards the field it wrote holds the patch's  *)
(* value while every field the interleaving commits wrote holds the value  *)
(* it had before the call.                                                 *)
C39_SiblingFieldsMerge ==
    (IsStale /\ ~last.strict /\ ~last.busy /\ SharesTopLevelKey /\ ~SharesPath) =>
        /\ last.ok
        /\ version = last.pre_version + 1
        /\ \A p \in TouchedPaths(last.dpatch) :
              GetPath(data, p) = GetPath(last.dpatch, p)
        /\ \A q \in last.stale : GetPath(data, q) = GetPath(last.pre_data, q)

(* {domain: {y}} at a stale version after a commit of {domain: {x}}: both  *)
(* fields hold their new values                                            *)
C39_Witness ==
    /\ last.kind = "cas" /\ IsStale /\ ~last.strict /\ ~last.busy
    /\ last.dpatch = Map1("d", M(Map1("y", S(7))))
    /\ <<"d", "x">> \in last.stale
    /\ last.ok
    /\ last.pre_data["d"] = M(Map2("x", S(7), "y", S(0)))
    /\ data["d"] = M(Map2("x", S(7), "y", S(7)))

(* C40: an execution that supplies ns.a through its return value never     *)
(* overwrites the sibling ns.b with a stale value: when it closes its      *)
(* transaction after another execution has committed a change to d.y since *)
(* it began, d.y holds afterwards what that commit left.                   *)
C40_ReturnKeepsSibling ==
    (last.kind = "tx" /\ prog[last.by] = "ret_x" /\ <<"d", "y">> \in last.stale) =>
        GetPath(data, <<"d", "y">>) = GetPath(last.pre_data, <<"d", "y">>)

(* ret_x has closed its transaction after inc_y committed d.y since ret_x  *)
(* began: the change of d.y is in place                                    *)
C40_Witness ==
    /\ last.kind = "tx"
    /\ prog[last.by] = "ret_x"
    /\ <<"d", "y">> \in last.stale
    /\ GetPath(last.dpatch, <<"d", "x">>) = S(7)
    /\ GetPath(data, <<"d", "y">>) = S(1)

====
